---- MODULE Spec2Model ----
(***************************************************************************)
(* Model of the backtesting engine of polymarket-btc-1h                    *)
(* (src/src/backtest/engine.ts, class BacktestEngine) and of its genetic   *)
(* optimizer (src/src/backtest/genetic).                                   *)
(*                                                                         *)
(* Numbers of the program (prices, balances, shares, pnl) are modelled as  *)
(* exact rationals <<n, d>> in lowest terms with d > 0.  One run of        *)
(* BacktestEngine.run is one behaviour: the configuration and the markets  *)
(* are chosen in Init, the chronologically sorted tick stream is produced  *)
(* one tick per loop iteration, and pc is the position of run() in its     *)
(* code.                                                                   *)
(***************************************************************************)
EXTENDS Integers, Sequences, FiniteSets, TLC

\* ------------------------------------------------------------------------
\* Bounds of the model
\* ------------------------------------------------------------------------
MaxTicks == 4

MaxTime == 3

MaxPopulation == 3

MaxTournamentSize == 3

MaxDataset == 4

\* ------------------------------------------------------------------------
\* Exact arithmetic on the program's numbers
\* ------------------------------------------------------------------------
RECURSIVE GCD(_, _)
GCD(a, b) == IF b = 0 THEN a ELSE GCD(b, a % b)

Abs(x) == IF x < 0 THEN -x ELSE x

Q(n, d) == LET g == GCD(Abs(n), d) IN <<n \div g, d \div g>>

QInt(i) == <<i, 1>>

QAdd(a, b) ==
  LET g == GCD(a[2], b[2])
  IN  Q(a[1] * (b[2] \div g) + b[1] * (a[2] \div g), (a[2] \div g) * b[2])

QNeg(a) == <<-a[1], a[2]>>

QSub(a, b) == QAdd(a, QNeg(b))

QMul(a, b) ==
  LET g1 == GCD(Abs(a[1]), b[2])
      g2 == GCD(Abs(b[1]), a[2])
  IN  Q((a[1] \div g1) * (b[1] \div g2), (a[2] \div g2) * (b[2] \div g1))

QDiv(a, b) ==
  QMul(a, IF b[1] < 0 THEN <<-b[2], -b[1]>> ELSE <<b[2], b[1]>>)

QLt(a, b) ==
  LET g == GCD(a[2], b[2])
  IN  a[1] * (b[2] \div g) < b[1] * (a[2] \div g)

QLe(a, b) == ~QLt(b, a)

QMin(a, b) == IF QLt(b, a) THEN b ELSE a

QMax(a, b) == IF QLt(a, b) THEN b ELSE a

\* a price given in hundredths
P(c) == Q(c, 100)

Zero == QInt(0)

One == QInt(1)

\* ------------------------------------------------------------------------
\* Program constants
\* ------------------------------------------------------------------------
MaxFillPrice == P(99)

MinFillPrice == P(1)

MinTradeBalance == One

Null == [null |-> TRUE]

Last(seq) == seq[Len(seq)]

Members(seq) == { seq[i] : i \in 1..Len(seq) }

\* ------------------------------------------------------------------------
\* Inputs: configurations, markets and ticks
\* ------------------------------------------------------------------------
MkConfig(et, mep, sl, ms, tw, pt, slip, cl, bb) ==
  [entryThreshold |-> P(et), maxEntryPrice |-> P(mep), stopLoss |-> P(sl),
   maxSpread |-> P(ms), timeWindowMs |-> tw, profitTarget |-> P(pt),
   startingBalance |-> QInt(100), slippage |-> P(slip),
   compoundLimit |-> QInt(cl), baseBalance |-> QInt(bb)]

\* The configurations of the runs.  The engine takes any BacktestConfig: the
\* first two satisfy stopLoss < entryThreshold < maxEntryPrice < profitTarget,
\* the third one has stopLoss above profitTarget.
Configs ==
  { MkConfig(80, 90, 70, 10, 2, 99,  0,   0,  10),
    MkConfig(80, 95, 70, 10, 1, 99, 10, 105, 100),
    MkConfig(80, 99, 95, 10, 1, 90,  0,   0,  10) }

Sides == {"UP", "DOWN"}

\* the markets of a run, by their place in the list handed to run()
Slugs == {1, 2}

\* the i-th market of the list ends at MaxTime - (i - 1): later markets of
\* the list end earlier, the first one at MaxTime
EndDateOf(slug) == MaxTime - ((slug - 1) % MaxTime)

MkMarket(slug, outcome) ==
  [slug |-> slug, endDate |-> EndDateOf(slug), outcome |-> outcome,
   upTokenId |-> <<slug, "UP">>, downTokenId |-> <<slug, "DOWN">>]

\* the outcomes of the markets of a list, in the order of the list
OutcomeLists == { <<"UP", "NULL">>, <<"NULL", "DOWN">> }

\* the market lists handed to run(): the empty list, and the lists of two
\* markets
MarketLists ==
  { <<>> } \cup { [i \in Slugs |-> MkMarket(i, o[i])] : o \in OutcomeLists }

\* <<bestBid, bestAsk>> of the ticks, in hundredths
Quotes == { <<1, 1>>, <<70, 70>>, <<70, 90>>, <<80, 80>>, <<90, 95>>, <<99, 99>> }

Ticks ==
  { [timestamp |-> ts, tokenId |-> <<m, s>>, marketSlug |-> m,
     bestBid |-> P(q[1]), bestAsk |-> P(q[2])] :
       ts \in 1..MaxTime, m \in Slugs, s \in Sides, q \in Quotes }

\* The state of a BacktestEngine and of its run(); previousMarkets holds the
\* market list of the run made before on the same instance, and is empty on
\* a new instance.
VARIABLES config, markets, balance, savedProfit, position, trades,
          equityCurve, peakBalance, lastTrade, expiredMarkets,
          tick, stream, nTicks, entries, pc, ret, previousMarkets

\* The state of the genetic optimizer (src/src/backtest/genetic).
VARIABLES chromosome, repaired, population, tournamentSize, tournament,
          selected, metrics, score, dataset, trainRatio, split,
          gaConfig, gen, totalEvaluations, progress, generationHistory,
          bestFitnessSoFar, convergenceCounter, convergedEarly, offspring,
          phase, topStrategies, bestStrategy, firstResult
VARIABLES inSampleMetrics, outOfSampleMetrics, robustness

\* The arguments and the results of the drawdown calculations of the engine.
VARIABLES points, seed, drawdowns

\* The ParameterBounds handed to the optimizer (options.bounds).
VARIABLES parameterBounds

\* The live bot (bot.ts): its BotState `bot`, its configuration, the
\* callbacks and poll ticks under way, the last bid of the price stream for
\* the held token, whether the market of the position has ended, and how
\* often the proceeds of each token were credited.
VARIABLES bot, botConfig, tasks, lastBid, ended, credits

\* The RateLimiter, the time of Date.now() and the calls of acquire.
VARIABLES limiter, clock, callers

backtestVars == <<config, markets, balance, savedProfit, position, trades,
                  equityCurve, peakBalance, lastTrade, expiredMarkets,
                  tick, stream, nTicks, entries, pc, ret, previousMarkets>>

repairVars == <<chromosome, repaired>>

selectVars == <<population, tournamentSize, tournament, selected>>

fitnessVars == <<metrics, score>>

splitVars == <<dataset, trainRatio, split>>

\* runGeneticOptimization: its locals, the calls of the progress callback
\* so far, and the place of control; its population is `population`
driverVars == <<gaConfig, gen, totalEvaluations, progress, generationHistory,
                bestFitnessSoFar, convergenceCounter, convergedEarly,
                offspring, phase, topStrategies, bestStrategy, firstResult>>

\* calculateRobustnessScore: its arguments and the score returned
robustVars == <<inSampleMetrics, outOfSampleMetrics, robustness>>

geneticVars ==
  <<repairVars, selectVars, fitnessVars, splitVars, driverVars, robustVars>>

\* calculateMaxDrawdown and calculateDrawdownCurve: the points of the
\* equity curve, the starting balance that seeds the peak, and the values
\* returned
drawdownVars == <<points, seed, drawdowns>>

\* the state of the components modelled after the optimizer
botVars == <<bot, botConfig, tasks, lastBid, ended, credits>>

limiterVars == <<limiter, clock, callers>>

restVars == <<drawdownVars, parameterBounds, botVars, limiterVars>>

vars == <<backtestVars, geneticVars, restVars>>

engineVars == <<balance, savedProfit, position, trades, equityCurve,
                peakBalance, lastTrade>>

\* ------------------------------------------------------------------------
\* Initial state: the state of run() after its reset (engine.ts 49-56, 76)
\* ------------------------------------------------------------------------
StreamStart == [timestamp |-> 0, marketSlug |-> 1]

\* no chromosome is under repair
RepairIdle == chromosome = Null /\ repaired = <<>>

\* no selection is under way
SelectIdle ==
  /\ population = <<>>
  /\ tournamentSize = 0
  /\ tournament = <<>>
  /\ selected = Null

\* no metrics are being scored
FitnessIdle == metrics = Null /\ score = <<>>

\* no dataset is being split
SplitIdle == dataset = <<>> /\ trainRatio = Zero /\ split = Null

\* no optimization is running
DriverIdle ==
  /\ gaConfig = Null
  /\ gen = 0
  /\ totalEvaluations = 0
  /\ progress = <<>>
  /\ generationHistory = <<>>
  /\ bestFitnessSoFar = <<>>
  /\ convergenceCounter = 0
  /\ convergedEarly = FALSE
  /\ offspring = <<>>
  /\ phase = "idle"
  /\ topStrategies = <<>>
  /\ bestStrategy = <<>>
  /\ firstResult = <<>>

\* no robustness score is asked for
RobustIdle ==
  /\ inSampleMetrics = Null
  /\ outOfSampleMetrics = Null
  /\ robustness = <<>>

\* no drawdown is being calculated
DrawdownIdle == points = <<>> /\ seed = Zero /\ drawdowns = Null

\* the bounds are the default ones
BoundsIdle == parameterBounds = Null

\* no bot is running
BotIdle ==
  /\ bot = Null
  /\ botConfig = Null
  /\ tasks = <<>>
  /\ lastBid = "none"
  /\ ended = FALSE
  /\ credits = <<>>

\* no limiter is examined
LimiterIdle ==
  /\ limiter = Null
  /\ clock = 0
  /\ callers = <<>>

RestIdle == DrawdownIdle /\ BoundsIdle /\ BotIdle /\ LimiterIdle

GeneticIdle ==
  /\ RepairIdle
  /\ SelectIdle
  /\ FitnessIdle
  /\ SplitIdle
  /\ DriverIdle
  /\ RobustIdle

\* the state of run() after its reset, with one of the configurations
\* `configs`
InitWith(configs) ==
  /\ GeneticIdle
  /\ RestIdle
  /\ previousMarkets = <<>>
  /\ config \in configs
  /\ markets \in MarketLists
  /\ balance = config.startingBalance
  /\ savedProfit = Zero
  /\ position = Null
  /\ trades = <<>>
  /\ equityCurve = <<>>
  /\ peakBalance = config.startingBalance
  /\ lastTrade = Null
  /\ expiredMarkets = {}
  /\ tick = Null
  /\ stream = StreamStart
  /\ nTicks = 0
  /\ entries = 0
  /\ pc = "loop"
  /\ ret = "loop"

Init == InitWith(Configs)

\* ------------------------------------------------------------------------
\* Pure parts of the engine
\* ------------------------------------------------------------------------

\* allTicks.sort (engine.ts 65-73): a stable sort by timestamp of the ticks
\* collected market by market, so a tick may follow the previous one iff its
\* timestamp is larger, or equal with a market not earlier in the list.
FollowsInStream(prev, t) ==
  \/ prev.timestamp < t.timestamp
  \/ prev.timestamp = t.timestamp /\ prev.marketSlug <= t.marketSlug

\* the position closed only after the end time of its market
PositionMarketEndedStrictly(t) ==
  /\ position # Null
  /\ position.marketSlug \notin expiredMarkets
  /\ t.timestamp > markets[position.marketSlug].endDate

\* engine.ts 81-83
PositionMarketEnded(t) ==
  /\ position # Null
  /\ position.marketSlug \notin expiredMarkets
  /\ t.timestamp >= markets[position.marketSlug].endDate

\* engine.ts 95
TickAtOrAfterEnd(t, market) == t.timestamp >= market.endDate

\* engine.ts 134
HoldsTickToken(t) == position # Null /\ position.tokenId = t.tokenId

\* engine.ts 136
ProfitTargetHit(t) == QLe(config.profitTarget, t.bestBid)

\* engine.ts 161
StopLossHit(t) == QLe(t.bestBid, config.stopLoss)

\* the guard of the entry left out
CanEnterAlways == TRUE

\* engine.ts 147
CanEnter == position = Null /\ QLe(MinTradeBalance, balance)

\* engine.ts 174-177
TimeRemaining(t, market) == market.endDate - t.timestamp

TimeWindowOk(t, market) ==
  ~(TimeRemaining(t, market) <= 0
      \/ TimeRemaining(t, market) > config.timeWindowMs)

\* engine.ts 180-181
SideOf(t, market) == IF t.tokenId = market.upTokenId THEN "UP" ELSE "DOWN"

\* engine.ts 184-187
SpreadOk(t) == ~QLt(config.maxSpread, QSub(t.bestAsk, t.bestBid))

\* the ceiling maxEntryPrice left out
AskAboveThresholdOnly(t) == ~QLt(t.bestAsk, config.entryThreshold)

\* engine.ts 190-193
AskInRange(t) ==
  ~(QLt(t.bestAsk, config.entryThreshold)
      \/ QLt(config.maxEntryPrice, t.bestAsk))

\* engine.ts 196-198
AskBelowTarget(t) == ~QLe(config.profitTarget, t.bestAsk)

\* engine.ts 202-209
OppositeSideBlocked(market, side) ==
  /\ lastTrade # Null
  /\ lastTrade.marketSlug = market.slug
  /\ lastTrade.side = side
  /\ QLt(Zero, lastTrade.pnl)

\* engine.ts 169-213: TRUE iff checkEntry reaches executeEntry
CheckEntry(t, market) ==
  /\ TimeWindowOk(t, market)
  /\ SpreadOk(t)
  /\ AskInRange(t)
  /\ AskBelowTarget(t)
  /\ ~OppositeSideBlocked(market, SideOf(t, market))

\* engine.ts 224-227
EntryPrice(t) ==
  QMin(QMul(t.bestAsk, QAdd(One, config.slippage)), MaxFillPrice)

\* engine.ts 230-240
NewPosition(t, market, side) ==
  [tokenId |-> t.tokenId, marketSlug |-> market.slug, side |-> side,
   shares |-> QDiv(balance, EntryPrice(t)), entryPrice |-> EntryPrice(t),
   entryTimestamp |-> t.timestamp]

\* the floor of 0.01 left out
FinalExitPriceNoFloor(exitPrice, exitReason) ==
  IF exitReason = "STOP_LOSS"
  THEN QMul(exitPrice, QSub(One, config.slippage))
  ELSE exitPrice

\* engine.ts 257-260
FinalExitPrice(exitPrice, exitReason) ==
  IF exitReason = "STOP_LOSS"
  THEN QMax(QMul(exitPrice, QSub(One, config.slippage)), MinFillPrice)
  ELSE exitPrice

\* engine.ts 263-277
NewTrade(pos, exitPrice, exitTimestamp, exitReason) ==
  [marketSlug |-> pos.marketSlug, tokenId |-> pos.tokenId, side |-> pos.side,
   entryPrice |-> pos.entryPrice,
   exitPrice |-> FinalExitPrice(exitPrice, exitReason),
   shares |-> pos.shares, entryTimestamp |-> pos.entryTimestamp,
   exitTimestamp |-> exitTimestamp, exitReason |-> exitReason,
   pnl |-> QMul(QSub(FinalExitPrice(exitPrice, exitReason), pos.entryPrice),
                pos.shares)]

\* every forced close resolved as a win
ExpiryExitPriceAlwaysWin(market, side) == config.profitTarget

\* engine.ts 325-333
ExpiryExitPrice(market, side) ==
  IF market.outcome = side THEN config.profitTarget
  ELSE IF market.outcome # "NULL" THEN MinFillPrice
  ELSE config.profitTarget

\* the balance not deducted on entry
BalanceKeptOnEntry == balance

\* engine.ts 243
BalanceAfterEntry == Zero

\* the profit of the trade taken for its proceeds
ProceedsAsPnl(trade, pos) == trade.pnl

\* engine.ts 283
Proceeds(trade, pos) == QMul(trade.exitPrice, pos.shares)

\* the test for a disabled limit (compoundLimit <= 0) left out
CompoundLimitExceededNoDisable == ~QLe(balance, config.compoundLimit)

\* engine.ts 309-310: TRUE iff checkCompoundLimit takes the profit
CompoundLimitExceeded ==
  ~QLe(config.compoundLimit, Zero) /\ ~QLe(balance, config.compoundLimit)

\* ------------------------------------------------------------------------
\* Steps of the engine
\* ------------------------------------------------------------------------

\* executeExit up to the clearing of the position (engine.ts 254-298); the
\* call of checkCompoundLimit that ends it (line 301) is the step Compound,
\* after which control returns to `after`.
executeExit(exitPrice, exitTimestamp, exitReason, after) ==
  LET trade == NewTrade(position, exitPrice, exitTimestamp, exitReason)
      proceeds == Proceeds(trade, position)
  IN  /\ trades' = Append(trades, trade)
      /\ lastTrade' = trade
      /\ balance' = proceeds
      /\ equityCurve' = Append(equityCurve,
                               [timestamp |-> exitTimestamp, balance |-> proceeds])
      /\ peakBalance' = IF QLt(peakBalance, proceeds) THEN proceeds ELSE peakBalance
      /\ position' = Null
      /\ pc' = "compound"
      /\ ret' = after
      /\ UNCHANGED <<savedProfit, entries>>

\* engine.ts 321-336
closePositionAtExpiry(market, after) ==
  executeExit(ExpiryExitPrice(market, position.side), market.endDate,
              "MARKET_RESOLVED", after)

\* engine.ts 218-244
executeEntry(t, market, side) ==
  /\ position' = NewPosition(t, market, side)
  /\ balance' = BalanceAfterEntry
  /\ entries' = entries + 1
  /\ pc' = "loop"
  /\ UNCHANGED <<savedProfit, trades, equityCurve, peakBalance, lastTrade, ret>>

Skip ==
  /\ pc' = "loop"
  /\ UNCHANGED <<engineVars, entries, ret>>

\* the stop-loss tested before the profit target
processTickStopLossFirst(t, market) ==
  IF HoldsTickToken(t)
  THEN IF StopLossHit(t)
       THEN executeExit(t.bestBid, t.timestamp, "STOP_LOSS", "loop")
       ELSE IF ProfitTargetHit(t)
            THEN executeExit(config.profitTarget, t.timestamp, "PROFIT_TARGET", "loop")
            ELSE Skip
  ELSE IF CanEnter /\ CheckEntry(t, market)
       THEN executeEntry(t, market, SideOf(t, market))
       ELSE Skip

\* engine.ts 132-150
processTick(t, market) ==
  IF HoldsTickToken(t)
  THEN IF ProfitTargetHit(t)
       THEN executeExit(config.profitTarget, t.timestamp, "PROFIT_TARGET", "loop")
       ELSE IF StopLossHit(t)
            THEN executeExit(t.bestBid, t.timestamp, "STOP_LOSS", "loop")
            ELSE Skip
  ELSE IF CanEnter /\ CheckEntry(t, market)
       THEN executeEntry(t, market, SideOf(t, market))
       ELSE Skip

\* The rest of an iteration of the loop of run(), after the check of the
\* position's market (engine.ts 89-104).
dispatchTick(t) ==
  LET market == markets[t.marketSlug]
  IN  IF market.slug \in expiredMarkets
      THEN Skip /\ UNCHANGED expiredMarkets
      ELSE IF TickAtOrAfterEnd(t, market)
           THEN /\ expiredMarkets' = expiredMarkets \cup {market.slug}
                /\ IF position # Null /\ position.marketSlug = market.slug
                   THEN closePositionAtExpiry(market, "loop")
                   ELSE Skip
           ELSE processTick(t, market) /\ UNCHANGED expiredMarkets

\* `tick` keeps the tick of the latest iteration that entered or left a
\* position; the ticks that leave the engine as it is are not kept.
ActedOn == pc' # "loop" \/ entries' # entries

\* One iteration of the loop of run() on the next tick of the sorted stream
\* (engine.ts 79-105), up to its end or to the first exit it executes.  A
\* position whose market has ended is force-closed first (81-87), and the
\* iteration resumes at ResumeTick once that exit is complete.
NextTick(t) ==
  /\ pc = "loop"
  /\ nTicks < MaxTicks
  /\ t.marketSlug \in DOMAIN markets
  /\ FollowsInStream(stream, t)
  /\ stream' = [timestamp |-> t.timestamp, marketSlug |-> t.marketSlug]
  /\ nTicks' = nTicks + 1
  /\ IF PositionMarketEnded(t)
     THEN /\ closePositionAtExpiry(markets[position.marketSlug], "dispatch")
          /\ expiredMarkets' = expiredMarkets \cup {position.marketSlug}
     ELSE dispatchTick(t)
  /\ tick' = IF ActedOn THEN t ELSE tick
  /\ UNCHANGED <<config, markets, previousMarkets, geneticVars, restVars>>

\* The iteration goes on after a forced close (engine.ts 89-104).
ResumeTick ==
  /\ pc = "dispatch"
  /\ dispatchTick(tick)
  /\ UNCHANGED <<config, markets, tick, stream, nTicks>>
  /\ UNCHANGED <<previousMarkets, geneticVars, restVars>>

\* the excess over baseBalance dropped instead of saved
CompoundDroppingProfit ==
  /\ pc = "compound"
  /\ IF CompoundLimitExceeded
     THEN /\ savedProfit' = savedProfit
          /\ balance' = config.baseBalance
     ELSE UNCHANGED <<savedProfit, balance>>
  /\ pc' = ret
  /\ UNCHANGED <<config, markets, position, trades, equityCurve, peakBalance,
                 lastTrade, expiredMarkets, tick, stream, nTicks, entries, ret>>
  /\ UNCHANGED <<previousMarkets, geneticVars, restVars>>

\* checkCompoundLimit, called at the end of executeExit (engine.ts 301,
\* 308-316).
Compound ==
  /\ pc = "compound"
  /\ IF CompoundLimitExceeded
     THEN /\ savedProfit' = QAdd(savedProfit, QSub(balance, config.baseBalance))
          /\ balance' = config.baseBalance
     ELSE UNCHANGED <<savedProfit, balance>>
  /\ pc' = ret
  /\ UNCHANGED <<config, markets, position, trades, equityCurve, peakBalance,
                 lastTrade, expiredMarkets, tick, stream, nTicks, entries, ret>>
  /\ UNCHANGED <<previousMarkets, geneticVars, restVars>>

\* run() returning without the forced close of the remaining position
FinishWithoutClose ==
  /\ pc = "loop"
  /\ pc' = "done"
  /\ UNCHANGED <<engineVars, entries, ret>>
  /\ UNCHANGED <<config, markets, expiredMarkets, tick, stream, nTicks>>
  /\ UNCHANGED <<previousMarkets, geneticVars, restVars>>

\* The tick stream is exhausted (engine.ts 107-113).
Finish ==
  /\ pc = "loop"
  /\ IF position # Null
     THEN closePositionAtExpiry(markets[position.marketSlug], "done")
     ELSE /\ pc' = "done"
          /\ UNCHANGED <<engineVars, entries, ret>>
  /\ UNCHANGED <<config, markets, expiredMarkets, tick, stream, nTicks>>
  /\ UNCHANGED <<previousMarkets, geneticVars, restVars>>

Next ==
  \/ \E t \in Ticks : NextTick(t)
  \/ ResumeTick
  \/ Compound
  \/ Finish

Spec == Init /\ [][Next]_vars

\* A configuration whose compoundLimit is positive and below its
\* baseBalance, which nothing in validateBacktestConfig excludes.
CompoundConfigs == { MkConfig(80, 90, 70, 10, 2, 99, 0, 50, 100) }

InitCompound == InitWith(CompoundConfigs)

SpecCompound == InitCompound /\ [][Next]_vars

\* ------------------------------------------------------------------------
\* The metrics of a run (engine.ts calculateMetrics)
\* ------------------------------------------------------------------------
\* a trade without loss counted as a win
IsWinOrFlat(trade) == QLe(Zero, trade.pnl)

\* engine.ts 342
IsWin(trade) == QLt(Zero, trade.pnl)

\* engine.ts 343
IsLoss(trade) == QLe(trade.pnl, Zero)

\* engine.ts 345: the sum of the pnl of the trades
RECURSIVE SumPnL(_)
SumPnL(log) ==
  IF log = <<>> THEN Zero
  ELSE QAdd(SumPnL(SubSeq(log, 1, Len(log) - 1)), Last(log).pnl)

\* engine.ts 400-423: the loop over the equity curve, from the peak and
\* the maxima `acc` reached before the points of `curve`
RECURSIVE DrawdownLoop(_, _)
DrawdownLoop(curve, acc) ==
  IF curve = <<>> THEN acc
  ELSE LET point == curve[1]
           peak == IF QLt(acc.peak, point.balance) THEN point.balance
                   ELSE acc.peak
           drawdown == QSub(peak, point.balance)
           drawdownPercent ==
             IF QLt(Zero, peak) THEN QDiv(drawdown, peak) ELSE Zero
       IN  DrawdownLoop(
             SubSeq(curve, 2, Len(curve)),
             IF QLt(acc.maxDrawdown, drawdown)
             THEN [peak |-> peak, maxDrawdown |-> drawdown,
                   maxDrawdownPercent |-> drawdownPercent]
             ELSE [acc EXCEPT !.peak = peak])

\* engine.ts 400-423
calculateMaxDrawdown(curve, startingBalance) ==
  IF curve = <<>>
  THEN [peak |-> startingBalance, maxDrawdown |-> Zero,
        maxDrawdownPercent |-> Zero]
  ELSE DrawdownLoop(curve, [peak |-> startingBalance, maxDrawdown |-> Zero,
                            maxDrawdownPercent |-> Zero])

\* engine.ts 355-361: the sign of the Sharpe ratio, (avgReturn / stdDev) *
\* sqrt(n) with stdDev > 0 and 0 else; the standard deviation of the
\* returns is above 0 when two returns differ
SharpeSign(log) ==
  IF \E i, j \in 1..Len(log) : log[i].pnl # log[j].pnl
  THEN IF QLt(Zero, SumPnL(log)) THEN 1
       ELSE IF QLt(SumPnL(log), Zero) THEN -1 ELSE 0
  ELSE 0

\* engine.ts 341-395: the metrics of the trade log and the equity curve,
\* the Sharpe ratio by its sign
calculateMetrics(log, curve, cfg) ==
  LET wins == SelectSeq(log, IsWin)
      losses == SelectSeq(log, IsLoss)
      drawdown == calculateMaxDrawdown(curve, cfg.startingBalance)
  IN  [totalTrades |-> Len(log),
       wins |-> Len(wins),
       losses |-> Len(losses),
       winRate |-> IF Len(log) > 0 THEN Q(Len(wins), Len(log)) ELSE Zero,
       totalPnL |-> SumPnL(log),
       maxDrawdown |-> drawdown.maxDrawdown,
       maxDrawdownPercent |-> drawdown.maxDrawdownPercent,
       sharpeSign |-> SharpeSign(log),
       returnOnCapital |-> QDiv(SumPnL(log), cfg.startingBalance)]

\* ------------------------------------------------------------------------
\* Further runs on the same BacktestEngine
\* ------------------------------------------------------------------------

\* the trade log and the equity curve of the run before kept
ResetStateKeepingTrades ==
  /\ balance' = config.startingBalance
  /\ savedProfit' = Zero
  /\ position' = Null
  /\ peakBalance' = config.startingBalance
  /\ lastTrade' = Null
  /\ UNCHANGED <<trades, equityCurve>>

\* the last trade of the run before kept
ResetStateKeepingLastTrade ==
  /\ balance' = config.startingBalance
  /\ savedProfit' = Zero
  /\ position' = Null
  /\ trades' = <<>>
  /\ equityCurve' = <<>>
  /\ peakBalance' = config.startingBalance
  /\ UNCHANGED lastTrade

\* engine.ts 50-56
ResetState ==
  /\ balance' = config.startingBalance
  /\ savedProfit' = Zero
  /\ position' = Null
  /\ trades' = <<>>
  /\ equityCurve' = <<>>
  /\ peakBalance' = config.startingBalance
  /\ lastTrade' = Null

\* run() called again on the instance once the run before has returned, up
\* to the start of its loop (engine.ts 48-76): the fields are reset, the
\* ticks of the new markets are collected and sorted and the set of expired
\* markets is a new one.
run(newMarkets) ==
  /\ pc = "done"
  /\ ResetState
  /\ markets' = newMarkets
  /\ previousMarkets' = <<markets>>
  /\ expiredMarkets' = {}
  /\ tick' = Null
  /\ stream' = StreamStart
  /\ nTicks' = 0
  /\ entries' = 0
  /\ pc' = "loop"
  /\ ret' = "loop"
  /\ UNCHANGED <<config, geneticVars, restVars>>

\* the engine of the runs made one after the other on an instance
InitRerun == Init /\ QLt(Zero, config.compoundLimit)

NextRerun ==
  \/ Next
  \/ \E newMarkets \in MarketLists : run(newMarkets)

SpecRerun == InitRerun /\ [][NextRerun]_vars

\* ------------------------------------------------------------------------
\* The numbers of the genes (IEEE 754 doubles)
\* ------------------------------------------------------------------------
\* A price gene is a double next to the grid of hundredths.  <<k, r>> is the
\* number (k + r * 2^-59) / 100, for k in 25..199.  The doubles of [0.5, 1)
\* are the multiples of 2^-53, so <<k, r>> is one of them iff
\* k * 2^59 + r is a multiple of 6400; those of [0.25, 0.5) and of [1, 2) are
\* spaced half and twice as far.  2^59 is 12288 modulo 25600.

\* one unit in the last place of the doubles around k / 100
UlpAt(k) == IF k < 50 THEN 3200 ELSE IF k < 100 THEN 6400 ELSE 12800

\* <<k, r>> is a double iff r is ResidueAt(k) modulo UlpAt(k)
ResidueAt(k) == (UlpAt(k) - ((k * 12288) % UlpAt(k))) % UlpAt(k)

\* <<k, r>> is a double whose mantissa is even
EvenMantissa(k, r) == (k * 12288 + r) % (2 * UlpAt(k)) = 0

\* the double nearest to the number <<k, r>>, ties to the even mantissa: the
\* rounding of every arithmetic operation on doubles
Nearest(k, r) ==
  LET below == r - ((r - ResidueAt(k)) % UlpAt(k))
      above == below + UlpAt(k)
  IN  IF 2 * (r - below) < UlpAt(k) THEN <<k, below>>
      ELSE IF 2 * (r - below) > UlpAt(k) THEN <<k, above>>
      ELSE IF EvenMantissa(k, below) THEN <<k, below>>
      ELSE <<k, above>>

\* the literal k / 100 of the source, and the quotient k / 100 of roundTo
Double(k) == Nearest(k, 0)

\* a + b and a - b of the source, for results in (0.5, 1)
FAdd(a, b) == Nearest(a[1] + b[1], a[2] + b[2])

FSub(a, b) == Nearest(a[1] - b[1], a[2] - b[2])

\* the order of the numbers <<k, r>>, |r| being far below 2^59
FLt(a, b) == a[1] < b[1] \/ (a[1] = b[1] /\ a[2] < b[2])

FLe(a, b) == ~FLt(b, a)

\* Math.min and Math.max
FMin(a, b) == IF FLt(b, a) THEN b ELSE a

FMax(a, b) == IF FLt(a, b) THEN b ELSE a

\* the literals 0.01, 0.05 and 0.06: doubles below 1/16, which are the
\* multiples of 2^-59 (0.01) and of 2^-57 (0.05, 0.06)
Hundredth == <<1, 12>>

FiveHundredths == <<5, 160>>

SixHundredths == <<6, -128>>

\* ------------------------------------------------------------------------
\* Chromosomes and their repair (genetic/chromosome.ts)
\* ------------------------------------------------------------------------
\* The genes entryThreshold, maxEntryPrice, stopLoss and profitTarget are
\* numbers <<k, r>> as above.  maxSpread is <<s, 0>>, s ten-thousandths, and
\* timeWindowMs is <<n, 0>>, n tenths of a millisecond: numbers that the
\* rounding of the repair takes to a multiple of ten.

\* genetic/types.ts: DEFAULT_BOUNDS
DEFAULT_BOUNDS ==
  [entryThreshold |-> [min |-> Double(70), max |-> Double(96)],
   maxEntryPrice  |-> [min |-> Double(92), max |-> Double(99)],
   stopLoss       |-> [min |-> Double(30), max |-> Double(80)],
   maxSpread      |-> [min |-> <<200, 0>>, max |-> <<800, 0>>],
   timeWindowMs   |-> [min |-> <<3000000, 0>>, max |-> <<36000000, 0>>],
   profitTarget   |-> [min |-> Double(98), max |-> Double(99)]]

GeneKeys == DOMAIN DEFAULT_BOUNDS

\* Math.round of a number given in tenths: halves go up
MathRound(value) == <<10 * ((value[1] + 5) \div 10), 0>>

\* roundTo(value, decimals): Math.round(value * 10^decimals) / 10^decimals.
\* A price gene <<k, r>> times 100 is next to the integer k, and k / 100 is
\* the double nearest to it; maxSpread is rounded to thousandths.
roundTo(value, decimals) ==
  IF decimals = 2 THEN Double(value[1]) ELSE MathRound(value)

clamp(value, min, max) == FMax(min, FMin(max, value))

\* chromosome.ts 31-39 (roundTo, Math.round)
Rounded(genes) ==
  [entryThreshold |-> roundTo(genes.entryThreshold, 2),
   maxEntryPrice  |-> roundTo(genes.maxEntryPrice, 2),
   stopLoss       |-> roundTo(genes.stopLoss, 2),
   maxSpread      |-> roundTo(genes.maxSpread, 3),
   timeWindowMs   |-> MathRound(genes.timeWindowMs),
   profitTarget   |-> roundTo(genes.profitTarget, 2)]

\* chromosome.ts 41-47
Clamped(genes, bounds) ==
  [key \in GeneKeys |-> clamp(genes[key], bounds[key].min, bounds[key].max)]

\* chromosome.ts 49-56
Constraint1(genes, bounds) ==
  IF FLt(FSub(genes.maxEntryPrice, Hundredth), genes.entryThreshold)
  THEN LET maxEntryPrice == FMin(FAdd(genes.entryThreshold, Hundredth),
                                 bounds.maxEntryPrice.max)
       IN  IF FLt(FSub(maxEntryPrice, Hundredth), genes.entryThreshold)
           THEN [genes EXCEPT !.maxEntryPrice = maxEntryPrice,
                              !.entryThreshold = FSub(maxEntryPrice, Hundredth)]
           ELSE [genes EXCEPT !.maxEntryPrice = maxEntryPrice]
  ELSE genes

\* chromosome.ts 58-61
Constraint2(genes, bounds) ==
  IF FLe(FSub(genes.entryThreshold, FiveHundredths), genes.stopLoss)
  THEN [genes EXCEPT !.stopLoss = FMax(FSub(genes.entryThreshold, SixHundredths),
                                       bounds.stopLoss.min)]
  ELSE genes

\* the third constraint not enforced
Constraint3Skipped(genes, bounds) == genes

\* chromosome.ts 63-66
Constraint3(genes, bounds) ==
  IF FLt(genes.profitTarget, genes.maxEntryPrice)
  THEN [genes EXCEPT !.profitTarget = FMin(genes.maxEntryPrice,
                                           bounds.profitTarget.max)]
  ELSE genes

\* chromosome.ts 28-72
repairChromosome(c, bounds) ==
  [c EXCEPT !.genes =
     Constraint3(Constraint2(Constraint1(Clamped(Rounded(c.genes), bounds),
                                         bounds), bounds), bounds)]

\* The genes of the chromosomes handed to the repair.  Every finite number
\* is taken by the rounding and the clamping to a number of the grid inside
\* the bounds, so the genes are taken next to the grid, below, inside and
\* above the bounds, on the grid and off it.
EntryThresholdGenes ==
  { Double(k) : k \in {60, 70, 74, 80, 86, 92, 93, 96, 99} }
    \cup { <<93, ResidueAt(93) + UlpAt(93)>> }

MaxEntryPriceGenes ==
  { Double(k) : k \in {90, 92, 93, 94, 97, 99, 100} }
    \cup { <<94, ResidueAt(94)>> }

StopLossGenes ==
  { Double(k) : k \in {25, 30, 64, 65, 69, 75, 80, 95} }
    \cup { <<64, ResidueAt(64) - UlpAt(64)>> }

MaxSpreadGenes == { <<s, 0>> : s \in {100, 204, 500, 806} }

TimeWindowGenes ==
  { <<n, 0>> : n \in {0, 2999995, 12000004, 36000000, 40000000} }

ProfitTargetGenes == { Double(k) : k \in {85, 97, 98, 99, 100} }

GeneSets ==
  [entryThreshold : EntryThresholdGenes, maxEntryPrice : MaxEntryPriceGenes,
   stopLoss : StopLossGenes, maxSpread : MaxSpreadGenes,
   timeWindowMs : TimeWindowGenes, profitTarget : ProfitTargetGenes]

\* fitness: null, where a number <<n, d>> may stand
NoFitness == <<>>

\* genetic/types.ts: Chromosome, not yet evaluated
NewChromosome(genes) ==
  [genes |-> genes, fitness |-> NoFitness, metrics |-> Null]

\* no BacktestEngine is running
BacktestIdle ==
  /\ config = Null
  /\ markets = <<>>
  /\ balance = Zero
  /\ savedProfit = Zero
  /\ position = Null
  /\ trades = <<>>
  /\ equityCurve = <<>>
  /\ peakBalance = Zero
  /\ lastTrade = Null
  /\ expiredMarkets = {}
  /\ tick = Null
  /\ stream = StreamStart
  /\ nTicks = 0
  /\ entries = 0
  /\ pc = "idle"
  /\ ret = "idle"
  /\ previousMarkets = <<>>

InitRepair ==
  /\ BacktestIdle
  /\ SelectIdle
  /\ FitnessIdle
  /\ SplitIdle
  /\ DriverIdle
  /\ RobustIdle
  /\ RestIdle
  /\ chromosome \in { NewChromosome(genes) : genes \in GeneSets }
  /\ repaired = <<>>

\* repairChromosome(chromosome), as createChromosome and every operator end
Repair ==
  /\ repaired = <<>>
  /\ repaired' = <<repairChromosome(chromosome, DEFAULT_BOUNDS)>>
  /\ UNCHANGED <<chromosome, backtestVars, selectVars, fitnessVars, splitVars,
                 driverVars, robustVars, restVars>>

\* the repair of a repaired chromosome: combinedMutate hands the chromosome
\* gaussianMutate repaired to resetMutate, which repairs it again
\* (operators.ts 197-206)
RepairAgain ==
  /\ Len(repaired) = 1
  /\ repaired' = Append(repaired,
                        repairChromosome(repaired[1], DEFAULT_BOUNDS))
  /\ UNCHANGED <<chromosome, backtestVars, selectVars, fitnessVars, splitVars,
                 driverVars, robustVars, restVars>>

NextRepair == Repair \/ RepairAgain

SpecRepair == InitRepair /\ [][NextRepair]_vars

\* ParameterBounds other than the default ones, min <= max for every gene
\* (index.ts 47: options.bounds ?? DEFAULT_BOUNDS): the default ones, the
\* range of entryThreshold above the one of maxEntryPrice, the range of
\* stopLoss above the one of entryThreshold, the range of profitTarget
\* below the one of maxEntryPrice
CustomBounds ==
  { DEFAULT_BOUNDS,
    [DEFAULT_BOUNDS EXCEPT
       !.entryThreshold = [min |-> Double(90), max |-> Double(95)],
       !.maxEntryPrice = [min |-> Double(80), max |-> Double(85)]],
    [DEFAULT_BOUNDS EXCEPT
       !.stopLoss = [min |-> Double(80), max |-> Double(90)]],
    [DEFAULT_BOUNDS EXCEPT
       !.profitTarget = [min |-> Double(85), max |-> Double(90)]] }

\* the genes of the chromosomes repaired within them
CustomGenes ==
  [entryThreshold : { Double(k) : k \in {70, 86, 93} },
   maxEntryPrice : { Double(k) : k \in {84, 93, 99} },
   stopLoss : { Double(k) : k \in {30, 64, 85} },
   maxSpread : { <<204, 0>> },
   timeWindowMs : { <<12000004, 0>> },
   profitTarget : { Double(k) : k \in {88, 99} }]

InitRepairWithin ==
  /\ BacktestIdle
  /\ SelectIdle
  /\ FitnessIdle
  /\ SplitIdle
  /\ DriverIdle
  /\ RobustIdle
  /\ DrawdownIdle
  /\ BotIdle
  /\ LimiterIdle
  /\ parameterBounds \in CustomBounds
  /\ chromosome \in { NewChromosome(genes) : genes \in CustomGenes }
  /\ repaired = <<>>

\* repairChromosome(chromosome, bounds) with the bounds of the options
RepairWithin ==
  /\ repaired = <<>>
  /\ repaired' = <<repairChromosome(chromosome, parameterBounds)>>
  /\ UNCHANGED <<chromosome, backtestVars, selectVars, fitnessVars, splitVars,
                 driverVars, robustVars, restVars>>

NextRepairWithin == RepairWithin

SpecRepairWithin == InitRepairWithin /\ [][NextRepairWithin]_vars

\* ------------------------------------------------------------------------
\* Tournament selection (genetic/operators.ts)
\* ------------------------------------------------------------------------
GenesA ==
  [entryThreshold |-> Double(80), maxEntryPrice |-> Double(95),
   stopLoss |-> Double(60), maxSpread |-> <<500, 0>>,
   timeWindowMs |-> <<12000000, 0>>, profitTarget |-> Double(99)]

GenesB ==
  [entryThreshold |-> Double(90), maxEntryPrice |-> Double(97),
   stopLoss |-> Double(70), maxSpread |-> <<300, 0>>,
   timeWindowMs |-> <<6000000, 0>>, profitTarget |-> Double(99)]

\* the chromosomes of the populations: evaluated ones, of two fitness
\* values, and ones not evaluated
Individuals ==
  { [genes |-> genes, fitness |-> fitness, metrics |-> Null] :
      genes \in {GenesA, GenesB},
      fitness \in {NoFitness, QInt(1), QInt(2)} }

RECURSIVE SeqsUpTo(_, _)
SeqsUpTo(S, n) ==
  IF n = 0 THEN { <<>> }
  ELSE SeqsUpTo(S, n - 1)
         \cup { Append(q, x) : q \in { r \in SeqsUpTo(S, n - 1) : Len(r) = n - 1 },
                               x \in S }

Populations == SeqsUpTo(Individuals, MaxPopulation)

\* population.filter(c => c.fitness !== null) left out
WholePopulation(pop) == pop

\* operators.ts 13
ValidPopulation(pop) == SelectSeq(pop, LAMBDA c : c.fitness # NoFitness)

\* a > b for a ?? -Infinity and b ?? -Infinity
FitnessGreater(a, b) ==
  /\ a # NoFitness
  /\ (b = NoFitness \/ QLt(b, a))

\* operators.ts 26-28: tournament.reduce, the first drawn as initial value
RECURSIVE Fittest(_)
Fittest(drawn) ==
  IF Len(drawn) = 1 THEN drawn[1]
  ELSE LET best == Fittest(SubSeq(drawn, 1, Len(drawn) - 1))
           current == drawn[Len(drawn)]
       IN  IF FitnessGreater(current.fitness, best.fitness) THEN current
           ELSE best

NoValidChromosomes ==
  [error |-> "No valid chromosomes in population for selection"]

InitSelect ==
  /\ BacktestIdle
  /\ RepairIdle
  /\ FitnessIdle
  /\ SplitIdle
  /\ DriverIdle
  /\ RobustIdle
  /\ RestIdle
  /\ population \in Populations
  /\ tournamentSize \in 1..MaxTournamentSize
  /\ tournament = <<>>
  /\ selected = Null

\* operators.ts 13-16
SelectThrow ==
  /\ selected = Null
  /\ ValidPopulation(population) = <<>>
  /\ selected' = NoValidChromosomes
  /\ UNCHANGED <<population, tournamentSize, tournament>>
  /\ UNCHANGED <<backtestVars, repairVars, fitnessVars, splitVars, driverVars, robustVars, restVars>>

\* operators.ts 20-23: one draw of Math.random
Draw(idx) ==
  /\ selected = Null
  /\ Len(tournament) < tournamentSize
  /\ idx \in 1..Len(ValidPopulation(population))
  /\ tournament' = Append(tournament, ValidPopulation(population)[idx])
  /\ UNCHANGED <<population, tournamentSize, selected>>
  /\ UNCHANGED <<backtestVars, repairVars, fitnessVars, splitVars, driverVars, robustVars, restVars>>

\* operators.ts 26-28
SelectReturn ==
  /\ selected = Null
  /\ ValidPopulation(population) # <<>>
  /\ Len(tournament) = tournamentSize
  /\ selected' = Fittest(tournament)
  /\ UNCHANGED <<population, tournamentSize, tournament>>
  /\ UNCHANGED <<backtestVars, repairVars, fitnessVars, splitVars, driverVars, robustVars, restVars>>

NextSelect ==
  \/ SelectThrow
  \/ \E idx \in 1..MaxPopulation : Draw(idx)
  \/ SelectReturn

SpecSelect == InitSelect /\ [][NextSelect]_vars

\* ------------------------------------------------------------------------
\* Fitness of a strategy (genetic/fitness.ts)
\* ------------------------------------------------------------------------

\* the number Infinity, the profit factor of a strategy without losses
Infinity == <<1, 0>>

\* The PerformanceMetrics scored: the fields calculateFitness reads.
\* returnOnCapital is at most 0, where Math.log1p(Math.max(0, x)) is 0.
MetricsSets ==
  [totalPnL : {QInt(-5), Zero, QInt(10)},
   maxDrawdownPercent : {Zero, Q(3, 10), Q(31, 100), Q(1, 2)},
   totalTrades : {0, 4, 5, 20, 40},
   sharpeRatio : {Zero, Q(3, 2)},
   winRate : {Q(1, 2), One},
   profitFactor : {Q(1, 2), QInt(2), QInt(5), Infinity},
   returnOnCapital : {Zero, Q(-1, 20)},
   maxConsecutiveLosses : {0, 4, 6, 8},
   expectancy : {QInt(-1), One, QInt(2)}]

\* Math.log1p(Math.max(0, x)) for x <= 0 (fitness.ts 45)
Log1pOfMax0(x) == Zero

\* fitness.ts 25-68
BonusFitness(m) ==
  LET sharpe == QMul(m.sharpeRatio, QInt(100))
      winRateBonus == QMul(m.winRate, QInt(10))
      pfBonus ==
        QMul(QMin(IF m.profitFactor = Infinity THEN QInt(3) ELSE m.profitFactor,
                  QInt(3)),
             Q(667, 100))
      ddPenalty == QMul(QDiv(m.maxDrawdownPercent, Q(3, 10)), QInt(15))
      rocBonus == QMul(Log1pOfMax0(m.returnOnCapital), QInt(10))
      consistency ==
        IF m.maxConsecutiveLosses <= 3 THEN QInt(10)
        ELSE IF m.maxConsecutiveLosses <= 5 THEN QInt(5)
        ELSE IF m.maxConsecutiveLosses <= 7 THEN QInt(2)
        ELSE Zero
      tradeBonus == QMul(QMin(Q(m.totalTrades, 20), One), QInt(5))
      expectancyBonus ==
        IF QLt(Zero, m.expectancy)
        THEN QMin(QMul(m.expectancy, QInt(10)), QInt(15))
        ELSE Zero
  IN  QAdd(QAdd(QAdd(QAdd(QSub(QAdd(QAdd(sharpe, winRateBonus), pfBonus),
                               ddPenalty),
                          rocBonus),
                     consistency),
                tradeBonus),
           expectancyBonus)

\* fitness.ts 14
PnLFloor(m) == QAdd(QInt(-1000), m.totalPnL)

\* fitness.ts 18
DrawdownFloor(m) ==
  QSub(QInt(-500), QMul(QSub(m.maxDrawdownPercent, Q(3, 10)), QInt(100)))

\* fitness.ts 22
TradesFloor(m) == QAdd(QInt(-100), QInt(m.totalTrades * 10))

\* the drawdown tested before the profit
calculateFitnessDrawdownFirst(m) ==
  IF QLt(Q(3, 10), m.maxDrawdownPercent) THEN DrawdownFloor(m)
  ELSE IF QLe(m.totalPnL, Zero) THEN PnLFloor(m)
  ELSE IF m.totalTrades < 5 THEN TradesFloor(m)
  ELSE BonusFitness(m)

\* fitness.ts 11-69
calculateFitness(m) ==
  IF QLe(m.totalPnL, Zero) THEN PnLFloor(m)
  ELSE IF QLt(Q(3, 10), m.maxDrawdownPercent) THEN DrawdownFloor(m)
  ELSE IF m.totalTrades < 5 THEN TradesFloor(m)
  ELSE BonusFitness(m)

InitFitness ==
  /\ BacktestIdle
  /\ RepairIdle
  /\ SelectIdle
  /\ SplitIdle
  /\ DriverIdle
  /\ RobustIdle
  /\ RestIdle
  /\ metrics \in MetricsSets
  /\ score = <<>>

\* the call calculateFitness(metrics)
Score ==
  /\ score = <<>>
  /\ score' = <<calculateFitness(metrics)>>
  /\ UNCHANGED <<metrics, backtestVars, repairVars, selectVars, splitVars,
                 driverVars, robustVars, restVars>>

NextFitness == Score

SpecFitness == InitFitness /\ [][NextFitness]_vars

\* ------------------------------------------------------------------------
\* Training and validation sets (genetic/walk-forward.ts)
\* ------------------------------------------------------------------------

\* The datasets: the i-th market of a dataset has slug i and a start time
\* of 1..MaxTime; markets may start together.
Datasets ==
  UNION { { [i \in 1..n |-> [slug |-> i, startDate |-> starts[i]]] :
              starts \in [1..n -> 1..MaxTime] } : n \in 0..MaxDataset }

\* the training ratios, in [0, 1]; 0.7 is DEFAULT_GA_CONFIG.trainingSplit
TrainRatios == { Zero, Q(3, 10), Q(1, 2), Q(7, 10), One }

\* the market put in its place among markets sorted by start time, behind
\* those that start with it
RECURSIVE Insert(_, _)
Insert(sorted, market) ==
  IF sorted = <<>> THEN <<market>>
  ELSE IF Last(sorted).startDate <= market.startDate
       THEN Append(sorted, market)
       ELSE Append(Insert(SubSeq(sorted, 1, Len(sorted) - 1), market),
                   Last(sorted))

\* the markets left in the order of the list
Unsorted(list) == list

\* walk-forward.ts 23-25: [...markets].sort by start time, a stable sort
RECURSIVE SortByStartDate(_)
SortByStartDate(list) ==
  IF list = <<>> THEN <<>>
  ELSE Insert(SortByStartDate(SubSeq(list, 1, Len(list) - 1)), Last(list))

\* walk-forward.ts 27: Math.floor(sorted.length * trainRatio)
SplitIndex(n, ratio) == (n * ratio[1]) \div ratio[2]

\* walk-forward.ts 18-44, for a ratio in [0, 1]
splitDataset(list, ratio) ==
  LET sorted == SortByStartDate(list)
      splitIndex == SplitIndex(Len(sorted), ratio)
  IN  [training |-> SubSeq(sorted, 1, splitIndex),
       validation |-> SubSeq(sorted, splitIndex + 1, Len(sorted))]

InitSplit ==
  /\ BacktestIdle
  /\ RepairIdle
  /\ SelectIdle
  /\ FitnessIdle
  /\ DriverIdle
  /\ RobustIdle
  /\ RestIdle
  /\ dataset \in Datasets
  /\ trainRatio \in TrainRatios
  /\ split = Null

\* the call splitDataset(dataset, trainRatio)
Split ==
  /\ split = Null
  /\ split' = splitDataset(dataset, trainRatio)
  /\ UNCHANGED <<dataset, trainRatio>>
  /\ UNCHANGED <<backtestVars, repairVars, selectVars, fitnessVars, driverVars, robustVars, restVars>>

NextSplit == Split

SpecSplit == InitSplit /\ [][NextSplit]_vars

\* ------------------------------------------------------------------------
\* The evolution driver (genetic/index.ts, runGeneticOptimization)
\* ------------------------------------------------------------------------
MkGAConfig(ps, g, ec, cg, ts) ==
  [populationSize |-> ps, generations |-> g, eliteCount |-> ec,
   convergenceThreshold |-> Q(1, 1000), convergenceGenerations |-> cg,
   trainingSplit |-> ts]

\* Math.min(10, config.populationSize) (index.ts 171)
MaxCandidates == 10

\* the configurations of the runs: populationSize >= 1, also above
\* MaxCandidates; eliteCount below, at and above populationSize; no
\* generation at all; a trainingSplit that leaves no validation market
GAConfigs ==
  { MkGAConfig(3, 3, 1, 2, Q(7, 10)),
    MkGAConfig(2, 3, 0, 1, Q(7, 10)),
    MkGAConfig(2, 2, 3, 2, One),
    MkGAConfig(1, 1, 0, 1, Q(7, 10)),
    MkGAConfig(MaxCandidates + 1, 0, 1, 1, Q(7, 10)) }

\* the markets of the runs
DriverDatasets ==
  { << [slug |-> 1, startDate |-> 2], [slug |-> 2, startDate |-> 1] >> }

\* genes drawn inside the bounds by createRandomChromosome, before the
\* repair (chromosome.ts 9-16); blendCrossover draws such genes too
\* (operators.ts 59-60)
RandomGenes ==
  { [entryThreshold |-> Double(96), maxEntryPrice |-> Double(92),
     stopLoss |-> Double(80), maxSpread |-> <<500, 0>>,
     timeWindowMs |-> <<12000004, 0>>, profitTarget |-> Double(97)],
    [entryThreshold |-> Double(70), maxEntryPrice |-> Double(94),
     stopLoss |-> Double(65), maxSpread |-> <<204, 0>>,
     timeWindowMs |-> <<36000000, 0>>, profitTarget |-> Double(98)] }

\* genes after the noise of a mutation, outside the bounds
\* (operators.ts 141-142)
MutatedGenes ==
  { [entryThreshold |-> Double(99), maxEntryPrice |-> Double(100),
     stopLoss |-> Double(95), maxSpread |-> <<806, 0>>,
     timeWindowMs |-> <<40000000, 0>>, profitTarget |-> Double(85)] }

\* the random genes left as drawn
createUnrepairedChromosome(genes) == NewChromosome(genes)

\* chromosome.ts 8-20
createRandomChromosome(genes) ==
  repairChromosome(NewChromosome(genes), DEFAULT_BOUNDS)

\* chromosome.ts 123-131
cloneChromosome(c) == NewChromosome(c.genes)

\* operators.ts 129-147, 153-168: the clone, its genes left or changed to
\* `genes`, repaired
Mutate(c, genes) ==
  repairChromosome([cloneChromosome(c) EXCEPT !.genes = genes],
                   DEFAULT_BOUNDS)

\* operators.ts 197-206: the chromosomes combinedMutate may return
combinedMutate(c) ==
  LET gaussian == { Mutate(c, genes) : genes \in {c.genes} \cup MutatedGenes }
  IN  UNION { { Mutate(m, genes) : genes \in {m.genes} \cup MutatedGenes } :
                m \in gaussian }

\* index.ts 125-137: the children of two parents that tournamentSelect
\* may return, by blendCrossover (operators.ts 35-81) or by copy
Crossover(pop) ==
  { createRandomChromosome(genes) : genes \in RandomGenes }
    \cup { cloneChromosome(parent) : parent \in Members(ValidPopulation(pop)) }

\* index.ts 125-141: the children bred of a population
Children(pop) == UNION { combinedMutate(child) : child \in Crossover(pop) }

\* the populations initializePopulation may return: every one up to
\* MaxPopulation chromosomes; of the larger ones those of one kind of
\* genes at the even places and one at the odd places
InitialPopulations(n) ==
  IF n <= MaxPopulation
  THEN [1..n -> { createRandomChromosome(genes) : genes \in RandomGenes }]
  ELSE { [i \in 1..n |->
            createRandomChromosome(IF i % 2 = 0 THEN even ELSE odd)] :
           even, odd \in RandomGenes }

\* the fitness an evaluation on the training markets returns: two values
\* less than convergenceThreshold apart, and a third one
FitnessValues == { QInt(1), Q(2001, 2000), QInt(2) }

\* the fitness values of the evaluations of a population: every choice up
\* to MaxPopulation chromosomes, three of the larger ones, the least fit
\* first, last, or none
TrainingFitness(n) ==
  IF n <= MaxPopulation THEN [1..n -> FitnessValues]
  ELSE { [i \in 1..n |-> IF i = least THEN QInt(1)
                         ELSE IF i % 2 = 0 THEN QInt(2) ELSE Q(2001, 2000)] :
           least \in {0, 1, n} }

\* bestFitnessSoFar = -Infinity
MinusInfinity == <<-1, 0>>

\* evaluateOnTraining (index.ts 75-78, 145-148): the chromosome with the
\* fitness and the metrics of the backtest of its genes, the metrics of
\* the evaluation number `evaluation`
EvaluatedAs(c, fit, evaluation) ==
  [c EXCEPT !.fitness = fit, !.metrics = [evaluation |-> evaluation]]

\* operators.ts 230-236: a stable sort, the fittest first
RECURSIVE InsertByFitness(_, _)
InsertByFitness(sorted, c) ==
  IF sorted = <<>> THEN <<c>>
  ELSE IF ~FitnessGreater(c.fitness, Last(sorted).fitness)
       THEN Append(sorted, c)
       ELSE Append(InsertByFitness(SubSeq(sorted, 1, Len(sorted) - 1), c),
                   Last(sorted))

RECURSIVE sortByFitness(_)
sortByFitness(pop) ==
  IF pop = <<>> THEN <<>>
  ELSE InsertByFitness(sortByFitness(SubSeq(pop, 1, Len(pop) - 1)), Last(pop))

Min(a, b) == IF a < b THEN a ELSE b

\* the elite copied as cloneChromosome copies, its evaluation dropped
getEliteCloned(pop, n) ==
  LET sorted == sortByFitness(pop)
  IN  [i \in 1..Min(n, Len(sorted)) |-> NewChromosome(sorted[i].genes)]

\* the n least fit taken for the elite
getEliteLeastFit(pop, n) ==
  LET sorted == sortByFitness(pop)
  IN  SubSeq(sorted, Len(sorted) - Min(n, Len(sorted)) + 1, Len(sorted))

\* operators.ts 241-247: copies of the first n, fitness and metrics kept
getElite(pop, n) ==
  LET sorted == sortByFitness(pop)
  IN  SubSeq(sorted, 1, Min(n, Len(sorted)))

\* index.ts 227: the best fitness of an evaluated population
RECURSIVE BestFitness(_)
BestFitness(pop) ==
  IF Len(pop) = 1 THEN pop[1].fitness
  ELSE QMax(BestFitness(SubSeq(pop, 1, Len(pop) - 1)), Last(pop).fitness)

\* index.ts 217-245: the fields of the statistics read later
collectGenerationStats(pop, generation, evaluations) ==
  [generation |-> generation, bestFitness |-> BestFitness(pop),
   evaluations |-> evaluations]

\* the progress reported with another phase
ProgressMislabelled(phaseName, generation, evaluations) ==
  [phase |-> "evolution", generation |-> generation,
   evaluations |-> evaluations]

\* the GeneticProgress handed to options.onProgress
Progress(phaseName, generation, evaluations) ==
  [phase |-> phaseName, generation |-> generation,
   evaluations |-> evaluations]

\* any improvement counted, however small
ImprovedAtAll(best, soFar, threshold) ==
  soFar = MinusInfinity \/ QLt(soFar, best)

\* index.ts 107
Improved(best, soFar, threshold) ==
  soFar = MinusInfinity \/ QLt(QAdd(soFar, threshold), best)

\* engine.ts 341-395 on an empty trade log: the fields calculateFitness
\* reads
EmptyMetrics ==
  [totalPnL |-> Zero, maxDrawdownPercent |-> Zero, totalTrades |-> 0,
   sharpeRatio |-> Zero, winRate |-> Zero, profitFactor |-> Zero,
   returnOnCapital |-> Zero, maxConsecutiveLosses |-> 0, expectancy |-> Zero]

\* walk-forward.ts 66-76: the backtest of the genes on the validation
\* markets and its fitness, `outcome` the fitness of each genes on markets
\* that are some
evaluateOnValidation(c, validationMarkets, outcome) ==
  IF validationMarkets = <<>>
  THEN [fitness |-> calculateFitness(EmptyMetrics), metrics |-> EmptyMetrics]
  ELSE [fitness |-> outcome[c.genes],
        metrics |-> [markets |-> Len(validationMarkets)]]

\* walk-forward.ts 82-100
validateCandidates(candidates, validationMarkets, outcome) ==
  [i \in 1..Len(candidates) |->
     LET result ==
           evaluateOnValidation(candidates[i], validationMarkets, outcome)
     IN  [genes |-> candidates[i].genes, fitness |-> candidates[i].fitness,
          metrics |-> candidates[i].metrics,
          validationFitness |-> result.fitness,
          validationMetrics |-> result.metrics]]

\* walk-forward.ts 191-193: a stable sort, the highest validation fitness
\* first
RECURSIVE InsertByValidation(_, _)
InsertByValidation(sorted, c) ==
  IF sorted = <<>> THEN <<c>>
  ELSE IF ~FitnessGreater(c.validationFitness, Last(sorted).validationFitness)
       THEN Append(sorted, c)
       ELSE Append(InsertByValidation(SubSeq(sorted, 1, Len(sorted) - 1), c),
                   Last(sorted))

RECURSIVE sortByValidation(_)
sortByValidation(candidates) ==
  IF candidates = <<>> THEN <<>>
  ELSE InsertByValidation(
         sortByValidation(SubSeq(candidates, 1, Len(candidates) - 1)),
         Last(candidates))

\* walk-forward.ts 179-181
WithValidation(candidates) ==
  SelectSeq(candidates,
            LAMBDA c : c.validationFitness # NoFitness
                         /\ c.validationMetrics # Null)

\* the choice by training fitness whatever the validation
selectBestByTraining(candidates) == Fittest(candidates)

\* walk-forward.ts 177-197, for candidates that are some
selectBestStrategy(candidates) ==
  IF WithValidation(candidates) = <<>> THEN Fittest(candidates)
  ELSE sortByValidation(WithValidation(candidates))[1]

\* every chromosome of the population a candidate
AllCandidates(pop, n) == sortByFitness(pop)

\* index.ts 171
TopCandidates(pop, n) == getElite(pop, Min(MaxCandidates, n))

\* the offspring left as bred
Untrimmed(list, n) == list

\* index.ts 155
Trimmed(list, n) == SubSeq(list, 1, Min(n, Len(list)))

InitDriver ==
  /\ BacktestIdle
  /\ RepairIdle
  /\ SelectIdle
  /\ FitnessIdle
  /\ RobustIdle
  /\ RestIdle
  /\ firstResult = <<>>
  /\ gaConfig \in GAConfigs
  /\ dataset \in DriverDatasets
  /\ trainRatio = gaConfig.trainingSplit
  /\ split = Null
  /\ gen = 0
  /\ totalEvaluations = 0
  /\ progress = <<>>
  /\ generationHistory = <<>>
  /\ bestFitnessSoFar = <<>>
  /\ convergenceCounter = 0
  /\ convergedEarly = FALSE
  /\ offspring = <<>>
  /\ phase = "start"
  /\ topStrategies = <<>>
  /\ bestStrategy = <<>>

driverFrame ==
  <<backtestVars, repairVars, fitnessVars, dataset, trainRatio,
    tournamentSize, tournament, selected, gaConfig, firstResult, robustVars, restVars>>

\* index.ts 46-71: the markets are split, the population is created and
\* the initialization reported
Initialize ==
  /\ phase = "start"
  /\ split' = splitDataset(dataset, gaConfig.trainingSplit)
  /\ population' \in InitialPopulations(gaConfig.populationSize)
  /\ totalEvaluations' = 0
  /\ progress' = Append(progress, Progress("initialization", 0, 0))
  /\ phase' = "evaluate"
  /\ UNCHANGED <<gen, generationHistory, bestFitnessSoFar,
                 convergenceCounter, convergedEarly, offspring,
                 topStrategies, bestStrategy, driverFrame>>

\* index.ts 73-85: every chromosome of the population is evaluated
EvaluatePopulation ==
  /\ phase = "evaluate"
  /\ \E fits \in TrainingFitness(Len(population)) :
       population' = [i \in 1..Len(population) |->
                        EvaluatedAs(population[i], fits[i], i)]
  /\ totalEvaluations' = Len(population)
  /\ bestFitnessSoFar' = MinusInfinity
  /\ convergenceCounter' = 0
  /\ convergedEarly' = FALSE
  /\ gen' = 0
  /\ phase' = "evolve"
  /\ UNCHANGED <<progress, generationHistory, offspring, split,
                 topStrategies, bestStrategy, driverFrame>>

\* index.ts 88: the condition of the evolution loop
LoopRuns == gen < gaConfig.generations

\* index.ts 88-121: a generation is recorded and reported; then the run
\* either has converged, or the next generation starts with the elite
RecordGeneration ==
  /\ phase = "evolve"
  /\ LoopRuns
  /\ LET sorted == sortByFitness(population)
         stats == collectGenerationStats(sorted, gen, totalEvaluations)
         improved == Improved(stats.bestFitness, bestFitnessSoFar,
                              gaConfig.convergenceThreshold)
         counter == IF improved THEN 0 ELSE convergenceCounter + 1
     IN  /\ population' = sorted
         /\ generationHistory' = Append(generationHistory, stats)
         /\ progress' = Append(progress,
                               Progress("evolution", gen, totalEvaluations))
         /\ bestFitnessSoFar' =
              IF improved THEN stats.bestFitness ELSE bestFitnessSoFar
         /\ convergenceCounter' = counter
         /\ IF counter >= gaConfig.convergenceGenerations
            THEN /\ convergedEarly' = TRUE
                 /\ phase' = "validate"
                 /\ UNCHANGED offspring
            ELSE /\ offspring' = getElite(sorted, gaConfig.eliteCount)
                 /\ phase' = "breed"
                 /\ UNCHANGED convergedEarly
  /\ UNCHANGED <<gen, totalEvaluations, split, topStrategies, bestStrategy,
                 driverFrame>>

\* index.ts 123-152: tournamentSelect fails on a population without an
\* evaluated chromosome (operators.ts 15-17); else two children are bred,
\* evaluated and added
Breed ==
  /\ phase = "breed"
  /\ Len(offspring) < gaConfig.populationSize
  /\ IF ValidPopulation(population) = <<>>
     THEN /\ phase' = "failed"
          /\ UNCHANGED <<offspring, totalEvaluations>>
     ELSE /\ \E child1, child2 \in Children(population),
                fit1, fit2 \in FitnessValues :
               offspring' =
                 offspring \o
                   << EvaluatedAs(child1, fit1, totalEvaluations + 1),
                      EvaluatedAs(child2, fit2, totalEvaluations + 2) >>
          /\ totalEvaluations' = totalEvaluations + 2
          /\ UNCHANGED phase
  /\ UNCHANGED <<population, gen, progress, generationHistory,
                 bestFitnessSoFar, convergenceCounter, convergedEarly,
                 split, topStrategies, bestStrategy, driverFrame>>

\* index.ts 154-156, 88: the offspring, trimmed, is the next population
NextGeneration ==
  /\ phase = "breed"
  /\ Len(offspring) >= gaConfig.populationSize
  /\ population' = Trimmed(offspring, gaConfig.populationSize)
  /\ gen' = gen + 1
  /\ phase' = "evolve"
  /\ UNCHANGED <<totalEvaluations, progress, generationHistory,
                 bestFitnessSoFar, convergenceCounter, convergedEarly,
                 offspring, split, topStrategies, bestStrategy, driverFrame>>

\* index.ts 88, 158-169: the loop is left, by its end or by convergence;
\* the population is sorted and the validation reported
Validate ==
  /\ \/ phase = "evolve" /\ ~LoopRuns
     \/ phase = "validate"
  /\ population' = sortByFitness(population)
  /\ progress' = Append(progress,
                        Progress("validation", Len(generationHistory),
                                 totalEvaluations))
  /\ phase' = "validating"
  /\ UNCHANGED <<gen, totalEvaluations, generationHistory, bestFitnessSoFar,
                 convergenceCounter, convergedEarly, offspring, split,
                 topStrategies, bestStrategy, driverFrame>>

\* index.ts 171-198: the candidates are validated, the best one selected,
\* the completion reported and the result returned
Complete ==
  /\ phase = "validating"
  /\ LET topCandidates == TopCandidates(population, gaConfig.populationSize)
     IN  \E outcome \in [{ c.genes : c \in Members(topCandidates) }
                           -> FitnessValues] :
           LET validatedCandidates ==
                 validateCandidates(topCandidates, split.validation, outcome)
           IN  /\ topStrategies' = validatedCandidates
               /\ bestStrategy' = <<selectBestStrategy(validatedCandidates)>>
  /\ progress' = Append(progress,
                        Progress("complete", Len(generationHistory),
                                 totalEvaluations))
  /\ phase' = "complete"
  /\ UNCHANGED <<population, gen, totalEvaluations, generationHistory,
                 bestFitnessSoFar, convergenceCounter, convergedEarly,
                 offspring, split, driverFrame>>

NextDriver ==
  \/ Initialize
  \/ EvaluatePopulation
  \/ RecordGeneration
  \/ Breed
  \/ NextGeneration
  \/ Validate
  \/ Complete

SpecDriver == InitDriver /\ [][NextDriver]_vars

\* the candidates handed to selectBestStrategy: with the results of a
\* validation and without
Candidates ==
  { [genes |-> GenesA, fitness |-> fit, metrics |-> Null,
     validationFitness |-> validationFit,
     validationMetrics |->
       IF validationFit = NoFitness THEN Null ELSE EmptyMetrics] :
      fit \in {QInt(1), QInt(2)},
      validationFit \in {NoFitness, QInt(1), QInt(2)} }

CandidateLists == SeqsUpTo(Candidates, MaxPopulation)

InitSelectBest ==
  /\ BacktestIdle
  /\ RepairIdle
  /\ SelectIdle
  /\ FitnessIdle
  /\ SplitIdle
  /\ RobustIdle
  /\ RestIdle
  /\ firstResult = <<>>
  /\ gaConfig = Null
  /\ gen = 0
  /\ totalEvaluations = 0
  /\ progress = <<>>
  /\ generationHistory = <<>>
  /\ bestFitnessSoFar = <<>>
  /\ convergenceCounter = 0
  /\ convergedEarly = FALSE
  /\ offspring = <<>>
  /\ phase = "select"
  /\ topStrategies \in CandidateLists
  /\ bestStrategy = <<>>

\* the call selectBestStrategy(topStrategies); without a candidate the
\* reduce of line 185 throws
SelectBest ==
  /\ phase = "select"
  /\ IF topStrategies = <<>>
     THEN /\ phase' = "failed"
          /\ UNCHANGED bestStrategy
     ELSE /\ phase' = "selected"
          /\ bestStrategy' = <<selectBestStrategy(topStrategies)>>
  /\ UNCHANGED <<population, gen, totalEvaluations, progress,
                 generationHistory, bestFitnessSoFar, convergenceCounter,
                 convergedEarly, offspring, split, topStrategies,
                 driverFrame>>

\* the runs of the driver and the calls of selectBestStrategy
InitValidation == InitDriver \/ InitSelectBest

NextValidation == NextDriver \/ SelectBest

SpecValidation == InitValidation /\ [][NextValidation]_vars

\* index.ts 187-198: the GeneticOptimizationResult of a finished run,
\* without its execution time
Result ==
  [bestStrategy |-> bestStrategy[1],
   topStrategies |-> topStrategies,
   generationHistory |-> generationHistory,
   totalGenerations |-> Len(generationHistory),
   totalEvaluations |-> totalEvaluations,
   convergedEarly |-> convergedEarly,
   config |-> gaConfig]

\* a second call of runGeneticOptimization with the markets and the
\* options of the first, whose result is kept; the options hold no seed,
\* and every draw is one of Math.random (operators.ts 21, 59-60, 139-141;
\* chromosome.ts 154)
RunAgain ==
  /\ phase = "complete"
  /\ firstResult = <<>>
  /\ firstResult' = <<Result>>
  /\ population' = <<>>
  /\ split' = Null
  /\ gen' = 0
  /\ totalEvaluations' = 0
  /\ progress' = <<>>
  /\ generationHistory' = <<>>
  /\ bestFitnessSoFar' = <<>>
  /\ convergenceCounter' = 0
  /\ convergedEarly' = FALSE
  /\ offspring' = <<>>
  /\ phase' = "start"
  /\ topStrategies' = <<>>
  /\ bestStrategy' = <<>>
  /\ UNCHANGED <<backtestVars, repairVars, fitnessVars, dataset, trainRatio,
                 tournamentSize, tournament, selected, gaConfig, robustVars, restVars>>

\* two runs of the smallest configuration that breeds
InitDriverTwice ==
  /\ InitDriver
  /\ gaConfig = MkGAConfig(1, 1, 0, 1, Q(7, 10))

NextDriverTwice == NextDriver \/ RunAgain

SpecDriverTwice == InitDriverTwice /\ [][NextDriverTwice]_vars

\* ------------------------------------------------------------------------
\* Robustness of a strategy (genetic/walk-forward.ts)
\* ------------------------------------------------------------------------
\* The PerformanceMetrics compared: the fields detectOverfitting and
\* calculateRobustnessScore read
RobustnessMetrics ==
  [totalPnL : {QInt(-5), Zero, QInt(10), QInt(20)},
   winRate : {Zero, Q(1, 2), Q(3, 5), One},
   sharpeRatio : {QInt(-1), Zero, Q(3, 2), QInt(3)}]

\* walk-forward.ts 118-171
detectOverfitting(inSample, outOfSample) ==
  LET pnlDrop == QSub(inSample.totalPnL, outOfSample.totalPnL)
      pnlDropPercent ==
        IF QLt(Zero, inSample.totalPnL) THEN QDiv(pnlDrop, inSample.totalPnL)
        ELSE Zero
      winRateDrop == QSub(inSample.winRate, outOfSample.winRate)
      sharpeDrop == QSub(inSample.sharpeRatio, outOfSample.sharpeRatio)
      pnlDivergence == QMul(QMax(Zero, pnlDropPercent), QInt(40))
      winRateDivergence == QMul(QMax(Zero, winRateDrop), QInt(30))
      sharpeDivergence ==
        IF QLt(Zero, inSample.sharpeRatio)
        THEN QMul(QMax(Zero, QDiv(sharpeDrop, inSample.sharpeRatio)),
                  QInt(30))
        ELSE Zero
      divergenceScore ==
        QAdd(QAdd(pnlDivergence, winRateDivergence), sharpeDivergence)
  IN  [isOverfit |-> QLt(QInt(30), divergenceScore)
                       \/ QLt(Q(1, 2), pnlDropPercent),
       divergenceScore |-> divergenceScore,
       pnlDrop |-> pnlDrop,
       pnlDropPercent |-> pnlDropPercent,
       winRateDrop |-> winRateDrop,
       sharpeDrop |-> sharpeDrop,
       recommendation |->
         IF QLt(divergenceScore, QInt(15)) THEN "generalizes well"
         ELSE IF QLt(divergenceScore, QInt(30)) THEN "moderate divergence"
         ELSE IF QLt(divergenceScore, QInt(50)) THEN "significant overfitting"
         ELSE "severe overfitting"]

\* walk-forward.ts 212-215
Bonus(outOfSample) ==
  QInt((IF QLt(Zero, outOfSample.totalPnL) THEN 10 ELSE 0)
         + (IF QLt(Zero, outOfSample.sharpeRatio) THEN 10 ELSE 0)
         + (IF QLt(Q(1, 2), outOfSample.winRate) THEN 5 ELSE 0))

\* the score without its cap
calculateRobustnessUncapped(inSample, outOfSample) ==
  LET analysis == detectOverfitting(inSample, outOfSample)
  IN  QAdd(QMax(Zero, QSub(QInt(100),
                           QMul(analysis.divergenceScore, QInt(2)))),
           Bonus(outOfSample))

\* walk-forward.ts 202-218
calculateRobustnessScore(inSample, outOfSample) ==
  LET analysis == detectOverfitting(inSample, outOfSample)
      robust == QMax(Zero, QSub(QInt(100),
                                QMul(analysis.divergenceScore, QInt(2))))
  IN  QMin(QInt(100), QAdd(robust, Bonus(outOfSample)))

InitRobustness ==
  /\ BacktestIdle
  /\ RepairIdle
  /\ SelectIdle
  /\ FitnessIdle
  /\ SplitIdle
  /\ DriverIdle
  /\ RestIdle
  /\ inSampleMetrics \in RobustnessMetrics
  /\ outOfSampleMetrics \in RobustnessMetrics
  /\ robustness = <<>>

\* the call calculateRobustnessScore(inSampleMetrics, outOfSampleMetrics)
Robustness ==
  /\ robustness = <<>>
  /\ robustness' =
       <<calculateRobustnessScore(inSampleMetrics, outOfSampleMetrics)>>
  /\ UNCHANGED <<inSampleMetrics, outOfSampleMetrics>>
  /\ UNCHANGED <<backtestVars, repairVars, selectVars, fitnessVars, splitVars,
                 driverVars, restVars>>

NextRobustness == Robustness

SpecRobustness == InitRobustness /\ [][NextRobustness]_vars

\* ------------------------------------------------------------------------
\* The drawdown of an equity curve (engine.ts calculateMaxDrawdown,
\* calculateDrawdownCurve)
\* ------------------------------------------------------------------------
\* the longest equity curve
MaxCurve == 4

\* the proceeds of the exits
Balances == { QInt(25), QInt(50), QInt(100), QInt(200), QInt(400) }

\* exitPrice / entryPrice of a trade: the position is bought with the whole
\* balance (engine.ts 229) and sold for exitPrice * shares (283), so the
\* proceeds of a trade are those of the trade before times this ratio,
\* never 1 for a profit target above and a stop loss below the entry
Ratios == { Q(1, 4), Q(1, 2), QInt(2), QInt(4) }

\* the equity curves of runs without compounding that start with `start`
RECURSIVE EquityCurves(_, _)
EquityCurves(start, n) ==
  IF n = 0 THEN { <<>> }
  ELSE LET shorter == EquityCurves(start, n - 1)
       IN  shorter \cup
             { Append(c, [timestamp |-> Len(c) + 1, balance |-> b]) :
                 <<c, b>> \in
                   { cb \in shorter \X Balances :
                       /\ Len(cb[1]) = n - 1
                       /\ \E r \in Ratios :
                            cb[2] = QMul(r, IF cb[1] = <<>> THEN start
                                            ELSE Last(cb[1]).balance) } }

\* engine.ts 428-448: the loop over the equity curve from the peak `peak`
RECURSIVE DrawdownCurveLoop(_, _)
DrawdownCurveLoop(curve, peak) ==
  IF curve = <<>> THEN <<>>
  ELSE LET point == curve[1]
           newPeak == IF QLt(peak, point.balance) THEN point.balance ELSE peak
           drawdown ==
             IF QLt(Zero, newPeak)
             THEN QDiv(QSub(newPeak, point.balance), newPeak) ELSE Zero
       IN  <<[timestamp |-> point.timestamp, drawdown |-> drawdown]>>
             \o DrawdownCurveLoop(SubSeq(curve, 2, Len(curve)), newPeak)

\* engine.ts 428-448
calculateDrawdownCurve(curve, start) == DrawdownCurveLoop(curve, start)

InitDrawdown ==
  /\ BacktestIdle
  /\ GeneticIdle
  /\ BoundsIdle
  /\ BotIdle
  /\ LimiterIdle
  /\ seed = QInt(100)
  /\ points \in EquityCurves(seed, MaxCurve)
  /\ drawdowns = Null

\* the end of run() (engine.ts 116-124): the metrics and the drawdown curve
\* of the equity curve
Drawdown ==
  /\ drawdowns = Null
  /\ drawdowns' =
       [maxDrawdown |-> calculateMaxDrawdown(points, seed).maxDrawdown,
        maxDrawdownPercent |->
          calculateMaxDrawdown(points, seed).maxDrawdownPercent,
        drawdownCurve |-> calculateDrawdownCurve(points, seed)]
  /\ UNCHANGED <<points, seed>>
  /\ UNCHANGED <<backtestVars, geneticVars, parameterBounds, botVars, limiterVars>>

NextDrawdown == Drawdown

SpecDrawdown == InitDrawdown /\ [][NextDrawdown]_vars

\* ---------------------------------------------------------------------------
\* The live bot: the exit paths (bot.ts)
\* ---------------------------------------------------------------------------
\* Control leaves a callback or a poll tick only at an await on real I/O
\* (trader.marketSell, trader.getBalance, fetchMarketResolution): the code
\* between two such awaits runs as one action.  The bot holds one position;
\* no market is eligible for an entry, the compound limit is disabled, the
\* price stream is connected and no resolution arrived over the WebSocket.

\* prices in cents
Bids == {0, 50, 90, 99}

\* the wallet balances trader.getBalance may report, in cents
WalletBalances == {0, 900}

\* the answers of trader.getBalance: null, or a balance
BalanceAnswers == {<<>>} \cup { <<w>> : w \in WalletBalances }

\* the callbacks of priceStream.onPrice and the ticks of setInterval that may
\* be under way at once
WsTasks == {"ws1", "ws2"}

PollTasks == {"poll1", "poll2"}

Tasks == WsTasks \cup PollTasks

NoPosition == [tokenId |-> "none", side |-> "none", shares |-> 0, entryPrice |-> 0]

\* the position held when the exits are examined: 10 shares of UP bought at 0.90
HeldPosition == [tokenId |-> "A", side |-> "UP", shares |-> 10, entryPrice |-> 90]

TaskIdle ==
  [pc |-> "idle", token |-> "none", position |-> NoPosition, available |-> <<0, 0>>, queue |-> <<>>]

TaskDone == [TaskIdle EXCEPT !.pc = "done"]

\* a task suspended at an await, holding its loop variables
TaskAt(at, pos) == [TaskIdle EXCEPT !.pc = at, !.token = pos.tokenId, !.position = pos]

MapDelete(map, key) == [k \in DOMAIN map \ {key} |-> map[k]]

MapSet(map, key, value) == [k \in DOMAIN map \cup {key} |-> IF k = key THEN value ELSE map[k]]

\* the state a run of synchronous code leaves behind
Outcome(b, c, task) == [bot |-> b, credits |-> c, task |-> task]

\* closeTrade, positions.delete and `balance += proceeds` of the paper
\* branches, which run together: 961-963, 1053-1055, 1147-1149
PaperClose(b, c, pos, exitPrice) ==
  Outcome([b EXCEPT !.positions = MapDelete(@, pos.tokenId),
                    !.balance = @ + exitPrice * pos.shares],
          [c EXCEPT ![pos.tokenId] = @ + 1],
          TaskDone)

\* positions.delete after a market sell that returned a result
RealClose(b, pos) == [b EXCEPT !.positions = MapDelete(@, pos.tokenId)]

\* the mutex of executeStopLoss (1121-1123)
ExitPending(b, tokenId) == tokenId \in b.pendingExits

\* executeStopLoss up to its first await (1119-1163)
executeStopLoss(b, c, pos, currentBid) ==
  IF ExitPending(b, pos.tokenId) THEN Outcome(b, c, TaskDone)
  ELSE IF botConfig.paperTrading THEN PaperClose(b, c, pos, currentBid)
  ELSE IF currentBid = 0 THEN Outcome(b, c, TaskDone)
  ELSE Outcome([b EXCEPT !.pendingExits = @ \cup {pos.tokenId}], c,
               TaskAt("sl_sell", pos))

\* the finally block of executeStopLoss (1194-1197)
ReleaseExit(b, tokenId) == [b EXCEPT !.pendingExits = @ \ {tokenId}]

\* checkStopLossRealtime (1101-1114)
checkStopLossRealtime(b, c, tokenId, currentBid) ==
  IF tokenId \in DOMAIN b.positions /\ currentBid <= botConfig.stopLoss
  THEN executeStopLoss(b, c, b.positions[tokenId], currentBid)
  ELSE Outcome(b, c, TaskDone)

\* checkStopLosses up to its first await (1200-1225), then the rest of tick
checkStopLosses(b, c, bid) ==
  IF DOMAIN b.positions # {} /\ bid <= botConfig.stopLoss
  THEN LET pos == b.positions[CHOOSE k \in DOMAIN b.positions : TRUE]
       IN  executeStopLoss(b, c, pos, bid)
  ELSE Outcome(b, c, TaskDone)

\* checkExpiredPositions up to its first await (1009-1067), then the rest of tick
checkExpiredPositions(b, c, bid, hasEnded) ==
  IF DOMAIN b.positions # {} /\ hasEnded
  THEN LET pos == b.positions[CHOOSE k \in DOMAIN b.positions : TRUE]
       IN  IF botConfig.paperTrading
           THEN Outcome(b, c, TaskAt("exp_fetch", pos))
           ELSE Outcome(b, c, TaskAt("exp_sell", pos))
  ELSE checkStopLosses(b, c, bid)

\* checkLimitOrderFills up to its first await (948-990), then the rest of tick
checkLimitOrderFills(b, c, bid, hasEnded) ==
  IF DOMAIN b.positions # {} /\ bid >= botConfig.profitTarget
  THEN LET pos == b.positions[CHOOSE k \in DOMAIN b.positions : TRUE]
       IN  IF botConfig.paperTrading
           THEN LET closed == PaperClose(b, c, pos, botConfig.profitTarget)
                IN  checkExpiredPositions(closed.bot, closed.credits, bid, hasEnded)
           ELSE Outcome(b, c, TaskAt("tp_sell", pos))
  ELSE checkExpiredPositions(b, c, bid, hasEnded)

\* what applyCompoundLimit and the balance syncs do with the answer of
\* trader.getBalance when the compound limit is disabled (785-791, 996-999)
SyncBalance(b, newBalance) ==
  IF newBalance = <<>> THEN b ELSE [b EXCEPT !.balance = newBalance[1]]

BotConfigs ==
  [paperTrading : BOOLEAN, maxPositions : {1}, stopLoss : {70}, profitTarget : {98}]

InitBotExit ==
  /\ BacktestIdle
  /\ GeneticIdle
  /\ DrawdownIdle
  /\ BoundsIdle
  /\ LimiterIdle
  /\ botConfig \in BotConfigs
  /\ bot = [positions |-> [k \in {"A"} |-> HeldPosition], pendingEntries |-> {},
            pendingExits |-> {}, balance |-> 0, reservedBalance |-> 0]
  /\ tasks = [t \in Tasks |-> TaskIdle]
  /\ lastBid = 90
  /\ ended = FALSE
  /\ credits = [k \in {"A"} |-> 0]

\* the state after the synchronous code of task t has run
Becomes(t, outcome) ==
  /\ bot' = outcome.bot
  /\ credits' = outcome.credits
  /\ tasks' = [tasks EXCEPT ![t] = outcome.task]

ExitFrame ==
  UNCHANGED <<backtestVars, geneticVars, drawdownVars, parameterBounds, limiterVars, botConfig>>

\* the end of the market of the position is reached
MarketEnds ==
  /\ ~ended
  /\ ended' = TRUE
  /\ UNCHANGED <<bot, tasks, lastBid, credits>>
  /\ ExitFrame

\* the callback registered with priceStream.onPrice (292-297)
OnPrice(t, bestBid) ==
  /\ t \in WsTasks
  /\ tasks[t].pc = "idle"
  /\ lastBid' = bestBid
  /\ Becomes(t, checkStopLossRealtime(bot, credits, "A", bestBid))
  /\ UNCHANGED ended
  /\ ExitFrame

\* tick (913-946) up to its first await
Tick(t) ==
  /\ t \in PollTasks
  /\ tasks[t].pc = "idle"
  /\ IF botConfig.paperTrading
     THEN Becomes(t, checkLimitOrderFills(bot, credits, lastBid, ended))
     ELSE Becomes(t, Outcome(bot, credits, [TaskIdle EXCEPT !.pc = "tick_balance"]))
  /\ UNCHANGED <<lastBid, ended>>
  /\ ExitFrame

\* trader.getBalance answers
BalanceReturns(t, newBalance) ==
  LET task == tasks[t]
      b == SyncBalance(bot, newBalance)
  IN  /\ task.pc \in {"tick_balance", "tp_balance", "exp_balance", "sl_balance"}
      /\ Becomes(t,
           CASE task.pc = "tick_balance" -> checkLimitOrderFills(b, credits, lastBid, ended)
             [] task.pc = "tp_balance" -> checkExpiredPositions(b, credits, lastBid, ended)
             [] task.pc = "exp_balance" -> checkStopLosses(b, credits, lastBid)
             [] task.pc = "sl_balance" -> Outcome(ReleaseExit(b, task.token), credits, TaskDone))
      /\ UNCHANGED <<lastBid, ended>>
      /\ ExitFrame

\* trader.marketSell answers with a result or with null (or throws, which
\* each path catches like a null)
SellReturns(t, result) ==
  LET task == tasks[t]
  IN  /\ task.pc \in {"tp_sell", "exp_sell", "sl_sell"}
      /\ Becomes(t,
           CASE task.pc = "tp_sell" ->
                  IF result THEN Outcome(RealClose(bot, task.position), credits, TaskAt("tp_balance", task.position))
                  ELSE checkExpiredPositions(bot, credits, lastBid, ended)
             [] task.pc = "exp_sell" ->
                  IF result THEN Outcome(RealClose(bot, task.position), credits, TaskAt("exp_balance", task.position))
                  ELSE checkStopLosses(bot, credits, lastBid)
             [] task.pc = "sl_sell" ->
                  IF result THEN Outcome(RealClose(bot, task.position), credits, TaskAt("sl_balance", task.position))
                  ELSE Outcome(ReleaseExit(bot, task.token), credits, TaskDone))
      /\ UNCHANGED <<lastBid, ended>>
      /\ ExitFrame

\* fetchMarketResolution answers (1036-1058)
ResolutionReturns(t, winner) ==
  LET task == tasks[t]
  IN  /\ task.pc = "exp_fetch"
      /\ IF winner = "none"
         THEN Becomes(t, checkStopLosses(bot, credits, lastBid))
         ELSE LET exitPrice == IF task.position.side = winner THEN 100 ELSE 0
                  closed == PaperClose(bot, credits, task.position, exitPrice)
              IN  Becomes(t, checkStopLosses(closed.bot, closed.credits, lastBid))
      /\ UNCHANGED <<lastBid, ended>>
      /\ ExitFrame

NextBotExit ==
  \/ MarketEnds
  \/ \E t \in WsTasks, bestBid \in Bids : OnPrice(t, bestBid)
  \/ \E t \in PollTasks : Tick(t)
  \/ \E t \in Tasks, newBalance \in BalanceAnswers : BalanceReturns(t, newBalance)
  \/ \E t \in Tasks, result \in BOOLEAN : SellReturns(t, result)
  \/ \E t \in Tasks, winner \in {"UP", "DOWN", "none"} : ResolutionReturns(t, winner)

SpecBotExit == InitBotExit /\ [][NextBotExit]_vars

\* ---------------------------------------------------------------------------
\* The live bot: the entry paths (bot.ts)
\* ---------------------------------------------------------------------------
\* balance and reservedBalance are doubles of dollars.  <<k, r>> is the
\* number (k + r * 2^-59) / 100 as for the genes, here for amounts of 0 or of
\* 2.00 to 31.99 dollars away from the powers of two: the doubles of [4, 8)
\* are the multiples of 2^-50, so <<k, r>> is one of them iff k * 2^59 + r is
\* a multiple of 51200, and so on.  2^59 is 114688 modulo 204800.

\* one unit in the last place of the doubles around k / 100 dollars
UsdUlpAt(k) ==
  IF k = 0 THEN 1 ELSE IF k < 400 THEN 25600 ELSE IF k < 800 THEN 51200
  ELSE IF k < 1600 THEN 102400 ELSE 204800

UsdResidueAt(k) == (UsdUlpAt(k) - ((k * 114688) % UsdUlpAt(k))) % UsdUlpAt(k)

UsdEvenMantissa(k, r) == (k * 114688 + r) % (2 * UsdUlpAt(k)) = 0

\* the double nearest to the amount <<k, r>>, ties to the even mantissa
UsdNearest(k, r) ==
  LET below == r - ((r - UsdResidueAt(k)) % UsdUlpAt(k))
      above == below + UsdUlpAt(k)
  IN  IF 2 * (r - below) < UsdUlpAt(k) THEN <<k, below>>
      ELSE IF 2 * (r - below) > UsdUlpAt(k) THEN <<k, above>>
      ELSE IF UsdEvenMantissa(k, below) THEN <<k, below>>
      ELSE <<k, above>>

\* the double nearest to k cents
Usd(k) == UsdNearest(k, 0)

\* a + b and a - b of the source on amounts
UsdAdd(a, b) == UsdNearest(a[1] + b[1], a[2] + b[2])

UsdSub(a, b) == UsdNearest(a[1] - b[1], a[2] - b[2])

Tokens == {"A", "B"}

\* the ask of an entry signal (0.90) buys MIN_ORDER_SIZE = 5 shares for 4.50
MinOrderUsd == <<450, 0>>

OneUsd == <<100, 0>>

\* the position an entry records: the fill is 10 shares at the ask
NewBotPosition(tokenId) == [tokenId |-> tokenId, side |-> "UP", shares |-> 10, entryPrice |-> 90]

\* getAvailableBalance (554-556): Math.max(0, balance - reservedBalance)
getAvailableBalance(b) ==
  IF FLt(b.balance, b.reservedBalance) THEN <<0, 0>>
  ELSE UsdSub(b.balance, b.reservedBalance)

\* enterPosition 1343-1347: the positions and the entries under way, this
\* one not counted
PositionCount(b, tokenId) ==
  Cardinality(DOMAIN b.positions) + Cardinality(b.pendingEntries \cup {tokenId}) - 1

\* the two finally blocks of enterPosition (1563-1570)
ReleaseEntry(b, task) ==
  [b EXCEPT !.reservedBalance = UsdSub(@, task.available),
            !.pendingEntries = @ \ {task.token}]

RECURSIVE scanLoop(_, _)

\* enterPosition up to its first await (1324-1477), then the rest of the
\* loop of scanForEntries; the prices of the signal pass the filters and no
\* trade was won in the market before
enterPosition(b, tokenId, rest) ==
  IF tokenId \in b.pendingEntries \/ tokenId \in DOMAIN b.positions
  THEN scanLoop(b, rest)
  ELSE IF PositionCount(b, tokenId) >= botConfig.maxPositions
  THEN scanLoop(b, rest)
  ELSE LET availableBalance == getAvailableBalance(b)
       IN  IF FLt(availableBalance, OneUsd) \/ FLt(availableBalance, MinOrderUsd)
           THEN scanLoop(b, rest)
           ELSE IF botConfig.paperTrading
           THEN scanLoop([b EXCEPT !.positions = MapSet(@, tokenId, NewBotPosition(tokenId)),
                                   !.balance = UsdSub(@, availableBalance),
                                   !.reservedBalance = UsdSub(UsdAdd(@, availableBalance), availableBalance)],
                         rest)
           ELSE Outcome([b EXCEPT !.pendingEntries = @ \cup {tokenId},
                                  !.reservedBalance = UsdAdd(@, availableBalance)],
                        credits,
                        [TaskIdle EXCEPT !.pc = "buy", !.token = tokenId,
                                         !.available = availableBalance, !.queue = rest])

\* the loop of scanForEntries over the eligible markets (1312-1318)
scanLoop(b, eligible) ==
  IF eligible = <<>> THEN Outcome(b, credits, TaskDone)
  ELSE IF Head(eligible) \in DOMAIN b.positions THEN scanLoop(b, Tail(eligible))
  ELSE enterPosition(b, Head(eligible), Tail(eligible))

\* checkEntryRealtime (1231-1293) for an update that is an entry signal
checkEntryRealtime(b, tokenId) ==
  IF FLt(b.balance, OneUsd) \/ FLt(b.balance, MinOrderUsd) \/ tokenId \in DOMAIN b.positions
  THEN Outcome(b, credits, TaskDone)
  ELSE enterPosition(b, tokenId, <<>>)

\* tick after the balance is known (929-941): the prices are between the stop
\* loss and the profit target and no market has ended, so the three checks
\* of the positions do nothing
scanIfBalance(b) ==
  IF FLt(OneUsd, b.balance)
  THEN Outcome(b, credits, [TaskIdle EXCEPT !.pc = "scan"])
  ELSE Outcome(b, credits, TaskDone)

\* the answers of fetchBtc1HourMarkets and findEligibleMarkets
EligibleLists == {<<>>, <<"A">>, <<"B">>, <<"A", "B">>, <<"B", "A">>}

\* the answers of trader.getBalance to the bot that enters: null, or a balance
EntryBalanceAnswers == {<<>>, <<Usd(514)>>, <<Usd(1322)>>}

BotEntryConfigs ==
  [paperTrading : BOOLEAN, maxPositions : {1, 2}, stopLoss : {70}, profitTarget : {98}]

InitBotEntry ==
  /\ BacktestIdle
  /\ GeneticIdle
  /\ DrawdownIdle
  /\ BoundsIdle
  /\ LimiterIdle
  /\ botConfig \in BotEntryConfigs
  /\ bot = [positions |-> <<>>, pendingEntries |-> {}, pendingExits |-> {},
            balance |-> Usd(514), reservedBalance |-> <<0, 0>>]
  /\ tasks = [t \in Tasks |-> TaskIdle]
  /\ lastBid = 90
  /\ ended = FALSE
  /\ credits = [k \in Tokens |-> 0]

EntryFrame ==
  UNCHANGED <<backtestVars, geneticVars, drawdownVars, parameterBounds, limiterVars, botConfig,
              lastBid, ended>>

\* the callback of priceStream.onPrice (292-297) for an entry signal
EntrySignal(t, tokenId) ==
  /\ t \in WsTasks
  /\ tasks[t].pc = "idle"
  /\ Becomes(t, checkEntryRealtime(bot, tokenId))
  /\ EntryFrame

\* tick (913-946) up to its first await
EntryTick(t) ==
  /\ t \in PollTasks
  /\ tasks[t].pc = "idle"
  /\ IF botConfig.paperTrading
     THEN Becomes(t, scanIfBalance(bot))
     ELSE Becomes(t, Outcome(bot, credits, [TaskIdle EXCEPT !.pc = "wallet"]))
  /\ EntryFrame

\* trader.getBalance answers the tick (922-927)
WalletReturns(t, newBalance) ==
  /\ tasks[t].pc = "wallet"
  /\ Becomes(t, scanIfBalance(SyncBalance(bot, newBalance)))
  /\ EntryFrame

\* fetchBtc1HourMarkets and subscribeToMarkets answer (1300-1318)
MarketsReturn(t, eligible) ==
  /\ tasks[t].pc = "scan"
  /\ Becomes(t, scanLoop(bot, eligible))
  /\ EntryFrame

\* enterPosition returns: the finally blocks, then the caller goes on
Leave(t) == Becomes(t, scanLoop(ReleaseEntry(bot, tasks[t]), tasks[t].queue))

\* the task goes on to its next await
Await(t, at) == Becomes(t, Outcome(bot, credits, [tasks[t] EXCEPT !.pc = at]))

\* trader.buy answers (1478-1482)
BuyReturns(t, result) ==
  /\ tasks[t].pc = "buy"
  /\ IF result THEN Await(t, "fill") ELSE Leave(t)
  /\ EntryFrame

\* trader.waitForFill answers (1486-1493)
FillReturns(t, filled) ==
  /\ tasks[t].pc = "fill"
  /\ IF filled THEN Await(t, "settle") ELSE Await(t, "cancel")
  /\ EntryFrame

\* trader.cancelOrder answers (1491-1492)
CancelReturns(t) ==
  /\ tasks[t].pc = "cancel"
  /\ Leave(t)
  /\ EntryFrame

\* the settlement delays and trader.getPositionBalance are over (1505-1548)
SettleReturns(t) ==
  /\ tasks[t].pc = "settle"
  /\ Becomes(t, Outcome([bot EXCEPT !.positions = MapSet(@, tasks[t].token, NewBotPosition(tasks[t].token))],
                        credits, [tasks[t] EXCEPT !.pc = "sync"]))
  /\ EntryFrame

\* trader.getBalance answers the entry (1555-1559)
SyncReturns(t, newBalance) ==
  /\ tasks[t].pc = "sync"
  /\ Becomes(t, scanLoop(ReleaseEntry(SyncBalance(bot, newBalance), tasks[t]), tasks[t].queue))
  /\ EntryFrame

\* an awaited call of the entry throws: the finally blocks run, and the
\* exception ends the callback, or the loop of scanForEntries (1319-1321)
Throws(t) ==
  /\ tasks[t].pc \in {"buy", "fill", "cancel", "settle", "sync"}
  /\ Becomes(t, Outcome(ReleaseEntry(bot, tasks[t]), credits, TaskDone))
  /\ EntryFrame

NextBotEntry ==
  \/ \E t \in WsTasks, tokenId \in Tokens : EntrySignal(t, tokenId)
  \/ \E t \in PollTasks : EntryTick(t)
  \/ \E t \in Tasks, newBalance \in EntryBalanceAnswers : WalletReturns(t, newBalance)
  \/ \E t \in Tasks, eligible \in EligibleLists : MarketsReturn(t, eligible)
  \/ \E t \in Tasks, result \in BOOLEAN : BuyReturns(t, result)
  \/ \E t \in Tasks, filled \in BOOLEAN : FillReturns(t, filled)
  \/ \E t \in Tasks : CancelReturns(t)
  \/ \E t \in Tasks : SettleReturns(t)
  \/ \E t \in Tasks, newBalance \in EntryBalanceAnswers : SyncReturns(t, newBalance)
  \/ \E t \in Tasks : Throws(t)

SpecBotEntry == InitBotEntry /\ [][NextBotEntry]_vars

\* ---------------------------------------------------------------------------
\* The rate limiter (RateLimiter of bot.ts)
\* ---------------------------------------------------------------------------
\* Times are milliseconds of Date.now() and tokens are counted in
\* thousandths, so that elapsed / 1000 * refillRate is elapsed * refillRate.

\* maxRequestsPerSecond of the limiter that is examined
MaxRequestsPerSecond == 2

\* the time over which the acquisitions are followed
MaxClock == 1000

\* the steps of the clock between two events
Delays == {250, 500}

\* the concurrent calls of acquire
Callers == {"c1", "c2", "c3", "c4"}

\* RateLimiter.refillTokens (38-43)
refillTokens(l, now) ==
  [tokens |-> Min(l.maxTokens * 1000, l.tokens + (now - l.lastRefill) * l.refillRate),
   lastRefill |-> now, maxTokens |-> l.maxTokens, refillRate |-> l.refillRate]

\* `this.tokens -= 1`
TakeToken(l) == [l EXCEPT !.tokens = @ - 1000]

\* Math.ceil((1 - this.tokens) / this.refillRate * 1000)
WaitMs(l) == ((1000 - l.tokens) + l.refillRate - 1) \div l.refillRate

\* the constructor (11-16)
InitLimiter ==
  /\ BacktestIdle
  /\ GeneticIdle
  /\ DrawdownIdle
  /\ BoundsIdle
  /\ BotIdle
  /\ clock = 0
  /\ limiter = [tokens |-> MaxRequestsPerSecond * 1000, lastRefill |-> 0,
                maxTokens |-> MaxRequestsPerSecond, refillRate |-> MaxRequestsPerSecond]
  /\ callers = [c \in Callers |-> [pc |-> "idle", wakeAt |-> 0]]

LimiterFrame == UNCHANGED <<backtestVars, geneticVars, drawdownVars, parameterBounds, botVars>>

\* time passes
Advance(dt) ==
  /\ clock + dt <= MaxClock
  /\ clock' = clock + dt
  /\ UNCHANGED <<limiter, callers>>
  /\ LimiterFrame

\* acquire up to its return or its await (22-32)
Acquire(c) ==
  /\ callers[c].pc = "idle"
  /\ LET refilled == refillTokens(limiter, clock)
     IN  IF refilled.tokens >= 1000
         THEN /\ limiter' = TakeToken(refilled)
              /\ callers' = [callers EXCEPT ![c].pc = "granted"]
         ELSE /\ limiter' = refilled
              /\ callers' = [callers EXCEPT ![c] = [pc |-> "waiting", wakeAt |-> clock + WaitMs(refilled)]]
  /\ UNCHANGED clock
  /\ LimiterFrame

\* the timer of acquire fires, at its time or later (32-35)
Wake(c) ==
  /\ callers[c].pc = "waiting"
  /\ clock >= callers[c].wakeAt
  /\ limiter' = TakeToken(refillTokens(limiter, clock))
  /\ callers' = [callers EXCEPT ![c].pc = "granted"]
  /\ UNCHANGED clock
  /\ LimiterFrame

NextLimiter ==
  \/ \E dt \in Delays : Advance(dt)
  \/ \E c \in Callers : Acquire(c)
  \/ \E c \in Callers : Wake(c)

SpecLimiter == InitLimiter /\ [][NextLimiter]_vars

\* ------------------------------------------------------------------------
\* Properties of the engine
\* ------------------------------------------------------------------------
\* the positions opened and not yet closed
OpenPositions == entries - Len(trades)

\* a tick of the held token that run() hands to processTick
HeldTokenTick(t) ==
  /\ pc = "loop"
  /\ position # Null
  /\ t.tokenId = position.tokenId
  /\ t.timestamp < markets[position.marketSlug].endDate

\* C1: at most one simulated position is open in every state of a run: the
\* entries executed exceed the trades closed by at most one, by one exactly
\* when a position is held, so no entry is executed while a position is open
\* and a tick of another token never opens a second one.
C1_SinglePosition ==
  /\ OpenPositions \in {0, 1}
  /\ (position # Null) <=> (OpenPositions = 1)

\* C1 witness: a position is held and the last tick handed to processTick was
\* a tick of another market, which is open and inside its window.
C1_Witness ==
  /\ pc = "loop"
  /\ position # Null
  /\ nTicks >= 2
  /\ stream.marketSlug # position.marketSlug
  /\ stream.marketSlug \notin expiredMarkets
  /\ stream.timestamp < markets[stream.marketSlug].endDate
  /\ C1_SinglePosition

\* C2: while a position is open the balance is exactly 0, and right after an
\* exit, before the compounding rule is applied, the balance is
\* exitPrice * shares of the trade just closed.
C2_BalanceAccounting ==
  /\ position # Null => balance = Zero
  /\ pc = "compound" =>
       balance = QMul(Last(trades).exitPrice, Last(trades).shares)

\* C2 witness: the state right after an exit with positive proceeds, of a
\* position that held the whole starting balance.
C2_Witness ==
  /\ pc = "compound"
  /\ QLt(Zero, balance)
  /\ QMul(Last(trades).entryPrice, Last(trades).shares) = config.startingBalance

\* C3: every entry is executed on a tick for which no position was open, the
\* balance was >= 1, 0 < market end - tick time <= timeWindowMs,
\* ask - bid <= maxSpread, entryThreshold <= ask <= maxEntryPrice and
\* ask < profitTarget; the position opened has
\* entryPrice = min(ask * (1 + slippage), 0.99) and
\* shares = balance before the entry / entryPrice.
C3_EntryConditions ==
  [][entries' = entries + 1 =>
       LET t == tick'
           remaining == markets[t.marketSlug].endDate - t.timestamp
       IN  /\ position = Null
           /\ QLe(One, balance)
           /\ 0 < remaining /\ remaining <= config.timeWindowMs
           /\ QLe(QSub(t.bestAsk, t.bestBid), config.maxSpread)
           /\ QLe(config.entryThreshold, t.bestAsk)
           /\ QLe(t.bestAsk, config.maxEntryPrice)
           /\ QLt(t.bestAsk, config.profitTarget)
           /\ position' # Null
           /\ position'.tokenId = t.tokenId
           /\ position'.marketSlug = t.marketSlug
           /\ position'.entryTimestamp = t.timestamp
           /\ position'.entryPrice =
                QMin(QMul(t.bestAsk, QAdd(One, config.slippage)), P(99))
           /\ position'.shares = QDiv(balance, position'.entryPrice)
  ]_vars

\* C3 witness: a position opened at the cap 0.99, ask * (1 + slippage) being
\* above it.
C3_Witness ==
  /\ position # Null
  /\ tick.tokenId = position.tokenId
  /\ position.entryPrice = P(99)
  /\ QLt(P(99), QMul(tick.bestAsk, QAdd(One, config.slippage)))

\* C4: the profit target is tested before the stop-loss: a tick of the held
\* token with bestBid >= profitTarget closes the position with one trade,
\* PROFIT_TARGET, at exitPrice = profitTarget (no slippage) and
\* pnl = (profitTarget - entryPrice) * shares, also when bestBid <= stopLoss;
\* a STOP_LOSS exit happens only on a tick with bestBid < profitTarget.
C4_ProfitTargetFirst ==
  [][ /\ \A t \in Ticks :
           ( /\ HeldTokenTick(t)
             /\ QLe(config.profitTarget, t.bestBid)
             /\ NextTick(t) )
           => /\ Len(trades') = Len(trades) + 1
              /\ Last(trades').exitReason = "PROFIT_TARGET"
              /\ Last(trades').exitPrice = config.profitTarget
              /\ Last(trades').exitTimestamp = t.timestamp
              /\ Last(trades').pnl =
                   QMul(QSub(config.profitTarget, position.entryPrice),
                        position.shares)
              /\ position' = Null
      /\ ( /\ Len(trades') = Len(trades) + 1
           /\ Last(trades').exitReason = "STOP_LOSS" )
           => QLt(tick'.bestBid, config.profitTarget)
  ]_vars

\* C4 witness: a PROFIT_TARGET exit on a tick whose bestBid is also at or
\* below stopLoss.
C4_Witness ==
  /\ pc = "compound"
  /\ Last(trades).exitReason = "PROFIT_TARGET"
  /\ tick.tokenId = Last(trades).tokenId
  /\ QLe(config.profitTarget, tick.bestBid)
  /\ QLe(tick.bestBid, config.stopLoss)

\* C5: a tick of the held token with bestBid < profitTarget and
\* bestBid <= stopLoss closes the position with exactly one trade, STOP_LOSS,
\* at exitPrice = max(bestBid * (1 - slippage), 0.01); with
\* stopLoss < bestBid < profitTarget the tick leaves the position, the
\* balance and the trade log as they are.
C5_StopLossExit ==
  [][\A t \in Ticks :
       ( /\ HeldTokenTick(t)
         /\ QLt(t.bestBid, config.profitTarget)
         /\ NextTick(t) )
       => IF QLe(t.bestBid, config.stopLoss)
          THEN /\ Len(trades') = Len(trades) + 1
               /\ SubSeq(trades', 1, Len(trades)) = trades
               /\ Last(trades').exitReason = "STOP_LOSS"
               /\ Last(trades').exitPrice =
                    QMax(QMul(t.bestBid, QSub(One, config.slippage)), P(1))
               /\ position' = Null
          ELSE /\ position' = position
               /\ balance' = balance
               /\ trades' = trades
  ]_vars

\* C5 witness: a STOP_LOSS exit whose price is the floor 0.01, the bid after
\* slippage being below it.
C5_Witness ==
  /\ pc = "compound"
  /\ Last(trades).exitReason = "STOP_LOSS"
  /\ tick.tokenId = Last(trades).tokenId
  /\ Last(trades).exitPrice = P(1)
  /\ QLt(QMul(tick.bestBid, QSub(One, config.slippage)), P(1))

\* C6: a forced close is recorded as MARKET_RESOLVED with the market's end
\* time as exitTimestamp; when the market's resolved side is the position's
\* side the exitPrice is profitTarget, when it is the other side the
\* exitPrice is 0.01.
C6_ExpiryResolution ==
  /\ \A i \in 1..Len(trades) :
       LET tr == trades[i]
           outcome == markets[tr.marketSlug].outcome
       IN  tr.exitReason = "MARKET_RESOLVED" =>
             /\ tr.exitTimestamp = markets[tr.marketSlug].endDate
             /\ outcome = tr.side => tr.exitPrice = config.profitTarget
             /\ (outcome \in Sides /\ outcome # tr.side) => tr.exitPrice = P(1)
  /\ (pc = "compound" /\ ret \in {"dispatch", "done"}) =>
       Last(trades).exitReason = "MARKET_RESOLVED"

\* C6 witness: a position force-closed in a market resolved to the other
\* side, at 0.01.
C6_Witness ==
  /\ pc = "compound"
  /\ ret \in {"dispatch", "done"}
  /\ markets[Last(trades).marketSlug].outcome \in Sides \ {Last(trades).side}
  /\ Last(trades).exitPrice = P(1)
  /\ QLt(Last(trades).pnl, Zero)

\* C7: a position force-closed in a market whose outcome is unknown is not
\* recorded as a win at profitTarget.
C7_UnknownOutcomeNotAWin ==
  \A i \in 1..Len(trades) :
    ( /\ trades[i].exitReason = "MARKET_RESOLVED"
      /\ markets[trades[i].marketSlug].outcome = "NULL" )
    => ~( /\ trades[i].exitPrice = config.profitTarget
          /\ QLt(Zero, trades[i].pnl) )

\* the most recent trade closed on side `side` of market `slug`, if any
LastTradeOn(slug, side) ==
  LET I == { i \in 1..Len(trades) :
               trades[i].marketSlug = slug /\ trades[i].side = side }
  IN  IF I = {} THEN Null
      ELSE trades[CHOOSE i \in I : \A j \in I : j <= i]

\* C8: no entry is executed on side S of market M when the most recent
\* earlier trade on side S of M closed with pnl > 0, whatever trades were
\* closed in other markets or on the other side of M since.
C8_OppositeSideRule ==
  [][entries' = entries + 1 =>
       LET prev == LastTradeOn(position'.marketSlug, position'.side)
       IN  prev = Null \/ ~QLt(Zero, prev.pnl)
  ]_vars

\* C9: with compoundLimit <= 0 savedProfit is 0 in every state; with
\* compoundLimit > 0 the compounding step after an exit whose balance exceeds
\* compoundLimit sets the balance to baseBalance and adds
\* (balance - baseBalance) to savedProfit, and after any other exit it
\* leaves both as they are.
C9_CompoundingRule ==
  /\ [](QLe(config.compoundLimit, Zero) => savedProfit = Zero)
  /\ [][pc = "compound" =>
          IF QLt(Zero, config.compoundLimit) /\ QLt(config.compoundLimit, balance)
          THEN /\ balance' = config.baseBalance
               /\ savedProfit' =
                    QAdd(savedProfit, QSub(balance, config.baseBalance))
          ELSE /\ balance' = balance
               /\ savedProfit' = savedProfit
     ]_vars

\* C9 witness: profit has been taken: the balance was reset to baseBalance
\* and savedProfit is positive.
C9_Witness ==
  /\ pc # "compound"
  /\ position = Null
  /\ QLt(Zero, config.compoundLimit)
  /\ QLt(Zero, savedProfit)
  /\ balance = config.baseBalance

\* C10: every position opened is closed exactly once: when run() returns no
\* position is open and there are as many trades as entries executed, and
\* the position still open when the ticks are exhausted is closed as
\* MARKET_RESOLVED at the end time of its market.
C10_AllPositionsClosed ==
  /\ OpenPositions \in {0, 1}
  /\ pc = "done" => (position = Null /\ Len(trades) = entries)
  /\ (pc = "compound" /\ ret = "done") =>
       /\ position = Null
       /\ Len(trades) = entries
       /\ Last(trades).exitReason = "MARKET_RESOLVED"
       /\ Last(trades).exitTimestamp = markets[Last(trades).marketSlug].endDate

\* C10 witness: run() has returned after it closed the position left open
\* by the last tick, at a market end later than that tick.
C10_Witness ==
  /\ pc = "done"
  /\ entries >= 1
  /\ Len(trades) = entries
  /\ Last(trades).exitReason = "MARKET_RESOLVED"
  /\ stream.timestamp < Last(trades).exitTimestamp

\* the state in which a new BacktestEngine starts the loop of its first run
FreshState ==
  /\ balance = config.startingBalance
  /\ savedProfit = Zero
  /\ position = Null
  /\ trades = <<>>
  /\ equityCurve = <<>>
  /\ peakBalance = config.startingBalance
  /\ lastTrade = Null
  /\ expiredMarkets = {}

\* C11: a run on an empty market list, or on markets without ticks, returns
\* with zero trades, an empty equity curve, finalBalance = startingBalance
\* and savedProfit = 0, on a new instance and on one that ran before.
C11_EmptyRun ==
  (pc = "done" /\ nTicks = 0) =>
    /\ trades = <<>>
    /\ equityCurve = <<>>
    /\ balance = config.startingBalance
    /\ savedProfit = Zero

\* C11 witness: a run on the empty market list has returned, on an instance
\* whose run before was on two markets.
C11_Witness ==
  /\ pc = "done"
  /\ markets = <<>>
  /\ previousMarkets # <<>>
  /\ previousMarkets[1] # <<>>

\* C12: run() is a function of (markets, config): whatever run was made
\* before on the instance, the loop of a run starts in the state in which it
\* starts on a new instance (balance, savedProfit, position, trades, equity
\* curve, peak and lastTrade reset, no market expired), and every step of
\* the loop is a function of that state and of the tick.
C12_RunResets ==
  (pc = "loop" /\ nTicks = 0) => FreshState

\* C12 witness: a second run on the instance, after a run on other markets,
\* has returned with trades and saved profit.
C12_Witness ==
  /\ pc = "done"
  /\ previousMarkets # <<>>
  /\ previousMarkets[1] # markets
  /\ trades # <<>>
  /\ QLt(Zero, savedProfit)

\* the gene lies within its bounds
WithinBounds(genes, key) ==
  /\ FLe(DEFAULT_BOUNDS[key].min, genes[key])
  /\ FLe(genes[key], DEFAULT_BOUNDS[key].max)

\* x - c / 100, exactly
Minus(x, c) == <<x[1] - c, x[2]>>

\* C13: every chromosome returned by repairChromosome with DEFAULT_BOUNDS
\* has each gene within its bounds, entryThreshold <= maxEntryPrice - 0.01,
\* stopLoss < entryThreshold - 0.05, profitTarget >= maxEntryPrice and
\* timeWindowMs > 0.
C13_RepairedIsValid ==
  \A i \in 1..Len(repaired) :
    LET genes == repaired[i].genes
    IN  /\ \A key \in GeneKeys : WithinBounds(genes, key)
        /\ FLe(genes.entryThreshold, Minus(genes.maxEntryPrice, 1))
        /\ FLt(genes.stopLoss, Minus(genes.entryThreshold, 5))
        /\ FLe(genes.maxEntryPrice, genes.profitTarget)
        /\ genes.timeWindowMs[1] > 0

\* C13 witness: the repair of a chromosome that breaks the three cross-gene
\* constraints and has genes outside their bounds.
C13_Witness ==
  /\ Len(repaired) >= 1
  /\ FLt(chromosome.genes.maxEntryPrice, chromosome.genes.entryThreshold)
  /\ FLt(chromosome.genes.entryThreshold, chromosome.genes.stopLoss)
  /\ FLt(chromosome.genes.profitTarget, chromosome.genes.maxEntryPrice)
  /\ FLt(DEFAULT_BOUNDS.stopLoss.max, chromosome.genes.stopLoss)
  /\ ~WithinBounds(chromosome.genes, "timeWindowMs")
  /\ ~WithinBounds(chromosome.genes, "profitTarget")
  /\ repaired[1].genes.entryThreshold # chromosome.genes.entryThreshold
  /\ repaired[1].genes.stopLoss # chromosome.genes.stopLoss

\* C14: repairChromosome is idempotent: the repair of a repaired chromosome
\* has exactly the genes of the repaired chromosome.
C14_RepairIdempotent ==
  Len(repaired) = 2 => repaired[2].genes = repaired[1].genes

Evaluated(pop) == { c \in Members(pop) : c.fitness # NoFitness }

\* C15: tournamentSelect on a population without an evaluated chromosome
\* (empty, or every fitness null) raises an error and returns no
\* chromosome; with an evaluated chromosome and tournamentSize >= 1 it
\* returns an evaluated chromosome of the population, one of those drawn,
\* whose fitness is >= the fitness of every chromosome drawn.
C15_TournamentSelect ==
  selected # Null =>
    IF Evaluated(population) = {}
    THEN selected = NoValidChromosomes
    ELSE /\ selected \in Evaluated(population)
         /\ selected \in Members(tournament)
         /\ Len(tournament) = tournamentSize
         /\ \A c \in Members(tournament) : QLe(c.fitness, selected.fitness)

\* C15 witness: a chromosome selected among drawn chromosomes of different
\* fitness, the fitter one drawn first, from a population that holds a
\* chromosome not evaluated.
C15_Witness ==
  /\ selected \in Evaluated(population)
  /\ Len(tournament) >= 2
  /\ QLt(tournament[2].fitness, tournament[1].fitness)
  /\ \E c \in Members(population) : c.fitness = NoFitness

\* C17: calculateFitness applies its floors in a fixed order, before any
\* bonus: with totalPnL <= 0 the score is -1000 + totalPnL; else with
\* maxDrawdownPercent > 0.30 it is -500 - (maxDrawdownPercent - 0.30) * 100;
\* else with totalTrades < 5 it is -100 + totalTrades * 10; the bonus
\* formula gives the score only when none of the three holds.
C17_FitnessFloors ==
  score # <<>> =>
    LET value == score[1]
        pnlFloor == QLe(metrics.totalPnL, Zero)
        drawdownFloor == QLt(Q(3, 10), metrics.maxDrawdownPercent)
        tradesFloor == metrics.totalTrades < 5
    IN  /\ pnlFloor => value = QAdd(QInt(-1000), metrics.totalPnL)
        /\ (~pnlFloor /\ drawdownFloor) =>
             value = QSub(QInt(-500),
                          QMul(QSub(metrics.maxDrawdownPercent, Q(3, 10)),
                               QInt(100)))
        /\ (~pnlFloor /\ ~drawdownFloor /\ tradesFloor) =>
             value = QInt(metrics.totalTrades * 10 - 100)
        /\ (~pnlFloor /\ ~drawdownFloor /\ ~tradesFloor) =>
             value = BonusFitness(metrics)
        /\ (pnlFloor \/ drawdownFloor \/ tradesFloor) => QLt(value, Zero)

\* C17 witness: metrics for which the three floors apply together are
\* scored by the first one.
C17_Witness ==
  /\ score # <<>>
  /\ QLt(metrics.totalPnL, Zero)
  /\ QLt(Q(3, 10), metrics.maxDrawdownPercent)
  /\ metrics.totalTrades < 5
  /\ score[1] = QAdd(QInt(-1000), metrics.totalPnL)

\* C19: splitDataset partitions the markets chronologically: every market
\* of the input is in exactly one of training and validation, training
\* holds the first floor(n * trainRatio) markets in the order of the start
\* times, and every training market starts no later than every validation
\* market.
C19_SplitDataset ==
  split # Null =>
    LET training == split.training
        validation == split.validation
        both == training \o validation
    IN  /\ Len(both) = Len(dataset)
        /\ \A market \in Members(dataset) :
             Cardinality({ i \in 1..Len(both) : both[i] = market }) = 1
        /\ Len(training) = (Len(dataset) * trainRatio[1]) \div trainRatio[2]
        /\ \A i, j \in 1..Len(both) :
             i < j => both[i].startDate <= both[j].startDate
        /\ \A a \in Members(training), b \in Members(validation) :
             a.startDate <= b.startDate

\* C19 witness: a dataset given out of order is split into a training and a
\* validation set of several markets, two markets that start together
\* falling on either side.
C19_Witness ==
  /\ split # Null
  /\ Len(split.training) >= 2
  /\ Len(split.validation) >= 2
  /\ dataset[1].startDate > dataset[2].startDate
  /\ Last(split.training).startDate = split.validation[1].startDate

\* the number of elite chromosomes of a generation
EliteSize == Min(gaConfig.eliteCount, gaConfig.populationSize)

\* C16: when the driver replaces the population by the next generation, the
\* top min(eliteCount, populationSize) chromosomes by fitness of the old
\* population are in the new one with the same genes, fitness and metrics,
\* and the evaluation counter has grown since the generation was recorded
\* by the number of the children only, not by the elite.
C16_Elitism ==
  [][ (phase = "breed" /\ phase' = "evolve") =>
        /\ \A i \in 1..EliteSize :
             /\ population'[i].genes = population[i].genes
             /\ population'[i].fitness = population[i].fitness
             /\ population'[i].metrics = population[i].metrics
             /\ \A j \in 1..Len(population) :
                  j > EliteSize =>
                    ~FitnessGreater(population[j].fitness,
                                    population[i].fitness)
        /\ totalEvaluations' =
             Last(generationHistory).evaluations
               + (Len(offspring) - EliteSize) ]_vars

\* C16 witness: a second generation holds an elite chromosome evaluated in
\* the initial population next to a child evaluated after it, the child
\* the fitter of the two.
C16_Witness ==
  /\ phase = "evolve"
  /\ gen >= 1
  /\ gaConfig.eliteCount >= 1
  /\ Len(population) >= 2
  /\ population[1].metrics.evaluation <= gaConfig.populationSize
  /\ population[2].metrics.evaluation > gaConfig.populationSize
  /\ QLt(population[1].fitness, population[2].fitness)

\* the place of a phase in Init -> Evolving -> Validating -> Complete
PhaseOrder(name) ==
  CASE name = "initialization" -> 0
    [] name = "evolution" -> 1
    [] name = "validation" -> 2
    [] name = "complete" -> 3

Reports(name) == { i \in 1..Len(progress) : progress[i].phase = name }

\* C18: the calls of the progress callback are, in this order: one with
\* phase initialization, one with phase evolution for each recorded
\* generation, the generations 0, 1, 2, ... in increasing order, one with
\* phase validation, one with phase complete, nothing after it; the
\* evaluations reported never decrease; a finished run has made all of
\* these calls.
C18_ProgressOrder ==
  /\ phase \notin {"start"} => Cardinality(Reports("initialization")) = 1
  /\ \A i \in Reports("initialization") : i = 1
  /\ Cardinality(Reports("evolution")) = Len(generationHistory)
  /\ \A i \in Reports("evolution") :
       /\ progress[i].generation = i - 2
       /\ generationHistory[i - 1].generation = i - 2
  /\ Cardinality(Reports("validation")) =
       IF phase \in {"validating", "complete"} THEN 1 ELSE 0
  /\ Cardinality(Reports("complete")) = IF phase = "complete" THEN 1 ELSE 0
  /\ \A i \in Reports("complete") : i = Len(progress)
  /\ \A i, j \in 1..Len(progress) :
       i < j =>
         /\ PhaseOrder(progress[i].phase) <= PhaseOrder(progress[j].phase)
         /\ progress[i].evaluations <= progress[j].evaluations

\* C18 witness: a finished run that recorded several generations and
\* reported more evaluations at the end than after the first generation.
C18_Witness ==
  /\ phase = "complete"
  /\ Len(generationHistory) >= 2
  /\ progress[2].evaluations < Last(progress).evaluations
  /\ progress[1].evaluations = 0

\* the last recorded best and the number of consecutive non-improving
\* generations at the end of a history of generations
RECURSIVE ConvergenceAfter(_)
ConvergenceAfter(history) ==
  IF history = <<>> THEN [best |-> MinusInfinity, nonImproving |-> 0]
  ELSE LET before == ConvergenceAfter(SubSeq(history, 1, Len(history) - 1))
           best == Last(history).bestFitness
       IN  IF /\ before.best # MinusInfinity
              /\ QLe(best, QAdd(before.best, gaConfig.convergenceThreshold))
           THEN [best |-> before.best,
                 nonImproving |-> before.nonImproving + 1]
           ELSE [best |-> best, nonImproving |-> 0]

ConvergedAt(i) ==
  ConvergenceAfter(SubSeq(generationHistory, 1, i)).nonImproving
    >= gaConfig.convergenceGenerations

\* C20: a generation is non-improving when its best fitness is at most the
\* last recorded best plus convergenceThreshold. convergedEarly is true
\* exactly when the last recorded generation is the convergenceGenerations-th
\* of a row of non-improving generations; no generation is recorded after
\* such a one; once convergedEarly is true the driver breeds and evaluates
\* nothing more; a run that finishes with convergedEarly false has recorded
\* every configured generation.
C20_Convergence ==
  LET n == Len(generationHistory)
  IN  /\ convergedEarly <=> (n >= 1 /\ ConvergedAt(n))
      /\ \A i \in 1..(n - 1) : ~ConvergedAt(i)
      /\ n <= gaConfig.generations
      /\ convergedEarly =>
           /\ phase \in {"validate", "validating", "complete"}
           /\ totalEvaluations = Last(generationHistory).evaluations
           /\ gen = Last(generationHistory).generation
      /\ (phase = "complete" /\ ~convergedEarly) => n = gaConfig.generations

\* C20 witness: a run finished early, before its last configured
\* generation, after a generation whose best fitness was above the last
\* recorded best by less than convergenceThreshold.
C20_Witness ==
  /\ phase = "complete"
  /\ convergedEarly
  /\ Len(generationHistory) < gaConfig.generations
  /\ QLt(bestFitnessSoFar, Last(generationHistory).bestFitness)

\* C21: a finished run has validated the first min(10, populationSize)
\* chromosomes of the final population sorted by training fitness, no
\* chromosome left out being fitter than one of them, and its bestStrategy
\* is one of the validated candidates, of a validation fitness >= that of
\* every validated candidate.
C21_ValidatedBest ==
  phase = "complete" =>
    LET n == Min(10, gaConfig.populationSize)
        best == bestStrategy[1]
    IN  /\ Len(topStrategies) = n
        /\ \A i \in 1..n :
             /\ topStrategies[i].genes = population[i].genes
             /\ topStrategies[i].fitness = population[i].fitness
             /\ topStrategies[i].metrics = population[i].metrics
             /\ topStrategies[i].validationFitness # NoFitness
             /\ \A j \in 1..Len(population) :
                  j > n => QLe(population[j].fitness, population[i].fitness)
        /\ best \in Members(topStrategies)
        /\ \A c \in Members(topStrategies) :
             QLe(c.validationFitness, best.validationFitness)

\* C21 witness: a run with more than ten chromosomes has finished, a
\* chromosome of the final population left out of the validation, and the
\* best strategy is not the candidate fittest in training.
C21_Witness ==
  /\ phase = "complete"
  /\ Len(population) > Len(topStrategies)
  /\ QLt(bestStrategy[1].fitness, topStrategies[1].fitness)
  /\ QLt(topStrategies[1].validationFitness,
         bestStrategy[1].validationFitness)

\* the candidates that carry validation results
Carrying(candidates) ==
  { c \in Members(candidates) :
      c.validationFitness # NoFitness /\ c.validationMetrics # Null }

\* C22: selectBestStrategy returns a candidate; when no candidate carries
\* validation results it is one of the highest training fitness, and when
\* some do it is one of them, of the highest validation fitness among
\* them, whatever the training fitness. A run of the driver with an empty
\* validation subset finishes, and its bestStrategy has the highest
\* training fitness of the candidates.
C22_TrainingFallback ==
  /\ phase = "selected" =>
       LET best == bestStrategy[1]
       IN  /\ best \in Members(topStrategies)
           /\ Carrying(topStrategies) = {} =>
                \A c \in Members(topStrategies) :
                  ~FitnessGreater(c.fitness, best.fitness)
           /\ Carrying(topStrategies) # {} =>
                /\ best \in Carrying(topStrategies)
                /\ \A c \in Carrying(topStrategies) :
                     QLe(c.validationFitness, best.validationFitness)
  /\ (phase = "validating" /\ split.validation = <<>>) => ENABLED Complete
  /\ (phase = "complete" /\ split.validation = <<>>) =>
       /\ bestStrategy[1] \in Members(topStrategies)
       /\ \A c \in Members(topStrategies) :
            QLe(c.fitness, bestStrategy[1].fitness)

\* C22 witness: a run whose trainingSplit leaves no validation market has
\* finished with candidates of different training fitness.
C22_Witness ==
  /\ phase = "complete"
  /\ split.validation = <<>>
  /\ Len(topStrategies) >= 2
  /\ QLt(topStrategies[2].fitness, topStrategies[1].fitness)
  /\ bestStrategy[1] = topStrategies[1]

\* C23: the robustness score of finite metrics is within [0, 100]; it is
\* min(100, max(0, 100 - 2 * divergence) + bonuses), the bonuses 10 for an
\* out-of-sample PnL > 0, 10 for an out-of-sample Sharpe ratio > 0 and 5 for
\* an out-of-sample win rate > 0.5; with divergence 0 and the three bonuses
\* it is 100.
C23_RobustnessRange ==
  robustness # <<>> =>
    LET value == robustness[1]
        divergence ==
          detectOverfitting(inSampleMetrics, outOfSampleMetrics).divergenceScore
        pnlBonus == IF QLt(Zero, outOfSampleMetrics.totalPnL) THEN 10 ELSE 0
        sharpeBonus ==
          IF QLt(Zero, outOfSampleMetrics.sharpeRatio) THEN 10 ELSE 0
        winRateBonus ==
          IF QLt(Q(1, 2), outOfSampleMetrics.winRate) THEN 5 ELSE 0
        bonuses == QInt(pnlBonus + sharpeBonus + winRateBonus)
        inverted == QSub(QInt(100), QMul(QInt(2), divergence))
        clamped == IF QLt(inverted, Zero) THEN Zero ELSE inverted
        sum == QAdd(clamped, bonuses)
    IN  /\ QLe(Zero, value)
        /\ QLe(value, QInt(100))
        /\ QLe(Zero, divergence)
        /\ value = IF QLt(QInt(100), sum) THEN QInt(100) ELSE sum
        /\ (divergence = Zero /\ pnlBonus + sharpeBonus + winRateBonus = 25) =>
             value = QInt(100)

\* C23 witness: metrics without divergence that earn the three bonuses
\* score 100.
C23_Witness ==
  /\ robustness = <<QInt(100)>>
  /\ detectOverfitting(inSampleMetrics, outOfSampleMetrics).divergenceScore
       = Zero
  /\ QLt(Zero, outOfSampleMetrics.totalPnL)
  /\ QLt(Zero, outOfSampleMetrics.sharpeRatio)
  /\ QLt(Q(1, 2), outOfSampleMetrics.winRate)

\* the metrics run() returns at its end
RunMetrics == calculateMetrics(trades, equityCurve, config)

\* C24: the metrics of a finished run have 0 <= winRate <= 1,
\* 0 <= maxDrawdownPercent <= 1 and wins + losses = totalTrades, the wins
\* being the trades of pnl > 0; with an empty trade log winRate,
\* maxDrawdown, maxDrawdownPercent and the Sharpe ratio are 0.
C24_MetricsRanges ==
  pc = "done" =>
    /\ QLe(Zero, RunMetrics.winRate)
    /\ QLe(RunMetrics.winRate, One)
    /\ QLe(Zero, RunMetrics.maxDrawdownPercent)
    /\ QLe(RunMetrics.maxDrawdownPercent, One)
    /\ RunMetrics.wins + RunMetrics.losses = RunMetrics.totalTrades
    /\ RunMetrics.totalTrades = Len(trades)
    /\ RunMetrics.wins
         = Cardinality({ i \in 1..Len(trades) : QLt(Zero, trades[i].pnl) })
    /\ trades = <<>> =>
         /\ RunMetrics.winRate = Zero
         /\ RunMetrics.maxDrawdown = Zero
         /\ RunMetrics.maxDrawdownPercent = Zero
         /\ RunMetrics.sharpeSign = 0

\* C24 witness: a finished run with a winning trade, a trade of pnl 0 and
\* a drawdown.
C24_Witness ==
  /\ pc = "done"
  /\ \E i, j \in 1..Len(trades) :
       QLt(Zero, trades[i].pnl) /\ trades[j].pnl = Zero
  /\ QLt(Zero, RunMetrics.maxDrawdownPercent)

\* C25: of two runs of the driver on the same markets with the same
\* options the second returns the best strategy of the first: the same
\* genes. (The claim asks for the whole result to be the same.)
C25_RunsAgree ==
  (phase = "complete" /\ firstResult # <<>>) =>
    bestStrategy[1].genes = firstResult[1].bestStrategy.genes

\* the genes lie within DEFAULT_BOUNDS and satisfy the three cross-gene
\* invariants
ValidGenes(genes) ==
  /\ \A key \in GeneKeys : WithinBounds(genes, key)
  /\ FLe(genes.entryThreshold, Minus(genes.maxEntryPrice, 1))
  /\ FLt(genes.stopLoss, Minus(genes.entryThreshold, 5))
  /\ FLe(genes.maxEntryPrice, genes.profitTarget)

C28_PopulationEvaluated ==
  /\ phase # "failed"
  /\ phase \in {"evolve", "breed", "validate", "validating", "complete"} =>
       /\ Len(population) = gaConfig.populationSize
       /\ \A c \in Members(population) : c.fitness # NoFitness
  /\ phase = "breed" =>
       /\ ValidPopulation(population) # <<>>
       /\ \A c \in Members(offspring) : c.fitness # NoFitness
       /\ Len(offspring) <= gaConfig.populationSize + 1

\* C28 witness: a generation boundary after a breeding whose last pair
\* overflowed the population by a child.
C28_Witness ==
  /\ phase = "evolve"
  /\ gen >= 1
  /\ Len(offspring) = gaConfig.populationSize + 1
  /\ Len(population) = gaConfig.populationSize

\* a tick arrives: an iteration of the loop of run() starts, and `stream`
\* takes the timestamp and the market of its tick
TickArrives == nTicks' = nTicks + 1

\* the arriving tick is at or after the end time of the market of the
\* open position
ArrivesAfterPositionEnd ==
  /\ TickArrives
  /\ position # Null
  /\ stream'.timestamp >= markets[position.marketSlug].endDate

\* the position is force-closed and its market marked expired in the step
\* of the arriving tick, before anything else is done with the tick
ExpiryFirst ==
  ArrivesAfterPositionEnd =>
    /\ position' = Null
    /\ Len(trades') = Len(trades) + 1
    /\ Last(trades').exitReason = "MARKET_RESOLVED"
    /\ Last(trades').marketSlug = position.marketSlug
    /\ position.marketSlug \in expiredMarkets'
    /\ entries' = entries

\* no position was opened, and none was closed by PROFIT_TARGET or
\* STOP_LOSS, on a tick at or after the end time of its market
NoneAtOrAfterEnd ==
  /\ position # Null =>
       position.entryTimestamp < markets[position.marketSlug].endDate
  /\ \A i \in 1..Len(trades) :
       /\ trades[i].entryTimestamp < markets[trades[i].marketSlug].endDate
       /\ trades[i].exitReason \in {"PROFIT_TARGET", "STOP_LOSS"} =>
            trades[i].exitTimestamp < markets[trades[i].marketSlug].endDate

\* the engine state and the expired markets stay as they are
EngineUnchanged == UNCHANGED <<engineVars, expiredMarkets>>

\* C27 as stated: a position whose market has ended is force-closed, and
\* the market marked expired, first on the arriving tick; nothing is
\* opened, or closed by PROFIT_TARGET or STOP_LOSS, at or after the end of
\* its market; and a tick of a market already marked expired never changes
\* the engine state.
C27_ExpiredTicksInert ==
  [][ /\ ExpiryFirst
      /\ NoneAtOrAfterEnd
      /\ NoneAtOrAfterEnd'
      /\ (TickArrives /\ stream'.marketSlug \in expiredMarkets) =>
           EngineUnchanged ]_vars

\* C27 amended: as stated, but a tick of a market already marked expired
\* leaves the engine state as it is unless the market of the open position
\* has reached its end time; then the tick force-closes that position, and
\* does nothing else.
C27_ExpiryOrdering ==
  [][ /\ ExpiryFirst
      /\ NoneAtOrAfterEnd
      /\ NoneAtOrAfterEnd'
      /\ (TickArrives /\ stream'.marketSlug \in expiredMarkets
            /\ ~ArrivesAfterPositionEnd) => EngineUnchanged
      /\ (pc = "dispatch" /\ tick.marketSlug \in expiredMarkets) =>
           EngineUnchanged ]_vars

\* C27 witness: a tick of a market already marked expired has force-closed
\* the position held in another market, and nothing more came of it.
C27_Witness ==
  /\ pc = "loop"
  /\ trades # <<>>
  /\ position = Null
  /\ tick # Null
  /\ tick.marketSlug # Last(trades).marketSlug
  /\ tick.timestamp > markets[tick.marketSlug].endDate
  /\ Last(trades).exitReason = "MARKET_RESOLVED"
  /\ Last(trades).exitTimestamp = markets[Last(trades).marketSlug].endDate
  /\ tick.timestamp >= Last(trades).exitTimestamp
  /\ {tick.marketSlug, Last(trades).marketSlug} \subseteq expiredMarkets

\* C29: after any prefix of the run the equity curve has one point per
\* trade, the i-th point carrying the exit timestamp of the i-th trade and
\* its proceeds exitPrice * shares; every trade has entryTimestamp <=
\* exitTimestamp <= the end time of its market, and the exit timestamps do
\* not decrease along the log.
C29_LogAndCurveAligned ==
  /\ Len(equityCurve) = Len(trades)
  /\ \A i \in 1..Len(trades) :
       /\ equityCurve[i].timestamp = trades[i].exitTimestamp
       /\ equityCurve[i].balance = QMul(trades[i].exitPrice, trades[i].shares)
       /\ trades[i].entryTimestamp <= trades[i].exitTimestamp
       /\ trades[i].exitTimestamp <= markets[trades[i].marketSlug].endDate
  /\ \A i \in 1..(Len(trades) - 1) :
       trades[i].exitTimestamp <= trades[i + 1].exitTimestamp

\* C29 witness: two trades in the log, the first closed before the end of
\* its market, the second at the end of its market after a later entry,
\* and a compounding that left a balance other than the proceeds.
C29_Witness ==
  /\ Len(trades) = 2
  /\ pc = "loop"
  /\ trades[1].exitReason \in {"PROFIT_TARGET", "STOP_LOSS"}
  /\ trades[1].exitTimestamp < trades[2].entryTimestamp
  /\ trades[2].exitReason = "MARKET_RESOLVED"
  /\ balance # equityCurve[2].balance

BestOfGeneration ==
  { i \in 1..Len(population) :
      population[i].fitness = Last(generationHistory).bestFitness }

\* C31: with eliteCount >= 1 and populationSize >= 1 the bestFitness
\* recorded in generationHistory does not decrease from one generation to
\* the next, whatever selection, crossover, mutation and evaluation give.
C31_BestFitnessMonotone ==
  (gaConfig.eliteCount >= 1 /\ gaConfig.populationSize >= 1) =>
    \A i \in 1..(Len(generationHistory) - 1) :
      QLe(generationHistory[i].bestFitness,
          generationHistory[i + 1].bestFitness)

\* C31 witness: a third generation recorded with eliteCount >= 1 whose
\* best fitness is carried by one chromosome only, an elite evaluated
\* before the generation before was recorded, all bred chromosomes being
\* less fit; the best fitness rose from the first generation to the second.
C31_Witness ==
  /\ gaConfig.eliteCount >= 1
  /\ Len(generationHistory) = 3
  /\ phase \in {"breed", "validate"}
  /\ QLt(generationHistory[1].bestFitness, generationHistory[2].bestFitness)
  /\ generationHistory[2].bestFitness = generationHistory[3].bestFitness
  /\ BestOfGeneration = {1}
  /\ population[1].metrics.evaluation <= generationHistory[2].evaluations
  /\ Len(population) > 1

\* totalGenerations of the result (index.ts 193)
TotalGenerations == Len(generationHistory)

\* C32 as stated: in the result convergedEarly = true implies
\* totalGenerations < config.generations, and convergedEarly = false
\* implies totalGenerations = config.generations.
C32_EarlyMeansFewer ==
  phase = "complete" =>
    /\ convergedEarly => TotalGenerations < gaConfig.generations
    /\ ~convergedEarly => TotalGenerations = gaConfig.generations

\* the analysis of the two metrics of the state
Analysis == detectOverfitting(inSampleMetrics, outOfSampleMetrics)

\* C33: the flag and the recommendation of detectOverfitting agree: with
\* the recommendation of significant or severe overfitting (divergenceScore
\* >= 30) isOverfit is true, and with isOverfit true the recommendation is
\* not the one of a strategy that generalizes well.
C33_FlagAgreesWithRecommendation ==
  robustness # <<>> =>
    /\ Analysis.recommendation
           \in {"significant overfitting", "severe overfitting"}
         => Analysis.isOverfit
    /\ Analysis.isOverfit => Analysis.recommendation # "generalizes well"

\* the three cross-gene invariants of repairChromosome (chromosome.ts 49-66)
\* on a configuration, and a slippage within [0, 0.10]
CrossGeneInvariants(cfg) ==
  /\ QLe(cfg.entryThreshold, QSub(cfg.maxEntryPrice, P(1)))
  /\ QLt(cfg.stopLoss, QSub(cfg.entryThreshold, P(5)))
  /\ QLe(cfg.maxEntryPrice, cfg.profitTarget)
  /\ QLe(Zero, cfg.slippage)
  /\ QLe(cfg.slippage, P(10))

\* C34: with a configuration that satisfies the three cross-gene
\* invariants and a slippage within [0, 0.10], every trade closed with
\* STOP_LOSS has pnl < 0 and every trade closed with PROFIT_TARGET has
\* pnl > 0.
C34_ExitReasonAgreesWithPnl ==
  CrossGeneInvariants(config) =>
    \A i \in 1..Len(trades) :
      /\ trades[i].exitReason = "STOP_LOSS" => QLt(trades[i].pnl, Zero)
      /\ trades[i].exitReason = "PROFIT_TARGET" => QLt(Zero, trades[i].pnl)

\* the running peak at the i-th point of the equity curve, seeded with the
\* starting balance
RECURSIVE RunningPeak(_)
RunningPeak(i) ==
  IF i = 0 THEN seed ELSE QMax(RunningPeak(i - 1), points[i].balance)

\* the drop from the running peak at the i-th point
Drop(i) == QSub(RunningPeak(i), points[i].balance)

\* C35: maxDrawdown is the largest drop from the running peak, seeded at
\* startingBalance, over the equity curve, and maxDrawdownPercent is at
\* least every drawdown of the drawdown curve of the same run.
C35_MaxDrawdown ==
  drawdowns # Null =>
    /\ \A i \in 1..Len(points) : QLe(Drop(i), drawdowns.maxDrawdown)
    /\ \/ \E i \in 1..Len(points) : Drop(i) = drawdowns.maxDrawdown
       \/ drawdowns.maxDrawdown = Zero
    /\ \A i \in 1..Len(drawdowns.drawdownCurve) :
         QLe(drawdowns.drawdownCurve[i].drawdown,
             drawdowns.maxDrawdownPercent)

\* C36: with compoundLimit > 0 and baseBalance >= 0, savedProfit never
\* decreases during a run and is never negative.
C36_SavedProfitMonotone ==
  [][ (QLt(Zero, config.compoundLimit) /\ QLe(Zero, config.baseBalance)) =>
        /\ QLe(savedProfit, savedProfit')
        /\ QLe(Zero, savedProfit') ]_vars

\* the gene lies within the bounds of the options
WithinParameterBounds(genes, key) ==
  /\ FLe(parameterBounds[key].min, genes[key])
  /\ FLe(genes[key], parameterBounds[key].max)

\* C37: for any ParameterBounds with min <= max for every gene and any
\* chromosome, repairChromosome returns a chromosome whose genes lie within
\* their bounds and satisfy entryThreshold <= maxEntryPrice - 0.01,
\* stopLoss < entryThreshold - 0.05 and profitTarget >= maxEntryPrice.
C37_RepairWithinAnyBounds ==
  \A i \in 1..Len(repaired) :
    LET genes == repaired[i].genes
    IN  /\ \A key \in GeneKeys : WithinParameterBounds(genes, key)
        /\ FLe(genes.entryThreshold, Minus(genes.maxEntryPrice, 1))
        /\ FLt(genes.stopLoss, Minus(genes.entryThreshold, 5))
        /\ FLe(genes.maxEntryPrice, genes.profitTarget)

\* the market sells under way for a token: the tasks suspended at
\* `await this.trader.marketSell(tokenId, position.shares)`
SellsInFlight(tokenId) ==
  { t \in DOMAIN tasks : tasks[t].pc \in {"tp_sell", "exp_sell", "sl_sell"} /\ tasks[t].token = tokenId }

\* C38 as stated: under any interleaving of price callbacks and poll ticks a
\* held position is closed at most once: no token has two market sells in
\* flight, and in paper mode its proceeds are credited at most once.  The
\* code violates it: only executeStopLoss consults pendingExits.
C38_ClosedAtMostOnce ==
  \A tokenId \in DOMAIN credits :
    /\ Cardinality(SellsInFlight(tokenId)) <= 1
    /\ credits[tokenId] <= 1

\* the entries under way for a token: the tasks suspended inside enterPosition
EntriesInFlight(tokenId) ==
  { t \in DOMAIN tasks :
      tasks[t].pc \in {"buy", "fill", "cancel", "settle", "sync"} /\ tasks[t].token = tokenId }

\* C39 as stated: starting with no positions, under any interleaving of
\* entry signals of the price stream and of the polling the open positions
\* never exceed maxPositions, no token has two entries in flight, and
\* pendingEntries is empty and reservedBalance is 0 whenever no entry is in
\* flight.  The code violates the last part: reservedBalance is a double.
C39_EntriesBounded ==
  /\ Cardinality(DOMAIN bot.positions) <= botConfig.maxPositions
  /\ \A tokenId \in Tokens : Cardinality(EntriesInFlight(tokenId)) <= 1
  /\ (\A tokenId \in Tokens : EntriesInFlight(tokenId) = {})
       => bot.pendingEntries = {} /\ bot.reservedBalance = <<0, 0>>

\* the acquisitions granted so far
Granted == Cardinality({ c \in DOMAIN callers : callers[c].pc = "granted" })

\* C40 as stated: for any interleaving of concurrent calls of acquire the
\* token count is never below 0 and never above maxTokens, so the
\* acquisitions granted never exceed maxTokens plus the tokens refilled over
\* the time elapsed.  The code violates it: every caller that waited takes a
\* token when its timer fires.
C40_TokensWithinBucket ==
  /\ limiter.tokens >= 0
  /\ limiter.tokens <= limiter.maxTokens * 1000
  /\ Granted * 1000 <= limiter.maxTokens * 1000 + clock * limiter.refillRate

====
